---- MODULE Spec2Model ----
(***************************************************************************)
(* claude-time-tracker: the session lifecycle (start / heartbeat / stop),  *)
(* the reconciliation sweep and the idle-gap accumulator of tracker.rs,    *)
(* over the store of db.rs.                                                *)
(*                                                                         *)
(* A timestamp (DateTime<Utc>) is a count of clock ticks, TicksPerSecond to *)
(* the second: timestamps are finer than a second, and a duration is read   *)
(* in whole seconds only through num_seconds.  An absent value (Rust None)  *)
(* is the empty sequence, Some(x) is <<x>>.  A row id is the row's position *)
(* in its table (INTEGER PRIMARY KEY rowids of a table that never deletes). *)
(***************************************************************************)
EXTENDS Integers, Sequences, FiniteSets, TLC

VARIABLES db, now, last, procs, runs

vars == <<db, now, last, procs, runs>>

----------------------------------------------------------------------------
(* Bounds of the model *)

MaxTime == 241
MaxSessions == 3
MaxHeartbeats == 3
MaxRuns == 3

(* config.rs Settings.idle_timeout_minutes: the value the global            *)
(* configuration file sets.                                                 *)
IdleTimeoutMinutes == 1

(* tracker.rs:188  (idle_timeout_minutes as i64) * 60 *)
SecondsPerMinute == 60

(* The resolution of a timestamp: Utc::now() and the stored RFC 3339 text    *)
(* carry a fraction of a second; the model keeps half seconds.              *)
TicksPerSecond == 2

(* chrono::Duration::seconds(n) and Duration::minutes(n), in ticks. *)
DurationSeconds(n) == n * TicksPerSecond
DurationMinutes(n) == DurationSeconds(n * SecondsPerMinute)

(* chrono::Duration::num_seconds: the whole seconds of a duration, the      *)
(* fraction dropped (towards zero).                                         *)
num_seconds(d) == IF d >= 0 THEN d \div TicksPerSecond ELSE -((-d) \div TicksPerSecond)

(* The amounts by which the wall clock advances between two invocations:    *)
(* exactly the idle timeout, and one tick more.                             *)
TickSteps ==
    {DurationMinutes(IdleTimeoutMinutes), DurationMinutes(IdleTimeoutMinutes) + 1}

None == <<>>
Some(x) == <<x>>
IsSome(o) == o # <<>>
Unwrap(o) == o[1]

(* The working directories the hooks are invoked for. *)
Paths == {"/a", "/b"}

(* What git::get_git_info returns for a working directory: an error (not a  *)
(* repository), or branch, optional head commit, optional remote.  "/a" is  *)
(* a repository on a feature branch, "/b" is not a repository.              *)
GitErr == [ok |-> FALSE]
GitRepo ==
    [ok |-> TRUE, branch |-> "feature/ABC-1", head_commit |-> Some("c1"),
     remote_url |-> Some("origin1")]
GitInfos(path) == IF path = "/a" THEN {GitRepo} ELSE {GitErr}

(* What EffectiveConfig::load yields for a project directory: "/a" has a    *)
(* project configuration file, "/b" gets one between two invocations.       *)
NoProjectConfig ==
    [idle_timeout_minutes |-> IdleTimeoutMinutes, project_name |-> None,
     work_item_pattern |-> None]
ProjectConfig ==
    [idle_timeout_minutes |-> IdleTimeoutMinutes, project_name |-> Some("Proj"),
     work_item_pattern |-> Some("([A-Z]+-[0-9]+)")]
Configs(path) == IF path = "/a" THEN {ProjectConfig} ELSE {NoProjectConfig, ProjectConfig}

(* What git::get_commits_between returns in stop_session: an error where    *)
(* there is no repository, else the list of the commits made since the     *)
(* session's start commit, oldest first: of each its hash and its commit    *)
(* time (CommitInfo's message is not modelled).                             *)
LogErr == [ok |-> FALSE, commits |-> <<>>]
LogOfOne == [ok |-> TRUE, commits |-> <<[hash |-> "c2", committed_at |-> Some(0)]>>]
CommitLogs(path) == IF path = "/a" THEN {LogOfOne} ELSE {LogErr}

----------------------------------------------------------------------------
(* models.rs *)

(* The status column as the store holds it: the strings of as_str. *)
SessionStatus == {"active", "completed", "abandoned"}

(* The variants of enum SessionStatus. *)
Variants == {"Active", "Completed", "Abandoned"}

(* Mutant: the variant's own name is stored. *)
as_str_variant_name(status) == status

(* SessionStatus::as_str *)
as_str(status) ==
    IF status = "Active" THEN "active"
    ELSE IF status = "Completed" THEN "completed"
    ELSE "abandoned"

(* SessionStatus::from_str *)
from_str(s) ==
    IF s = "active" THEN Some("Active")
    ELSE IF s = "completed" THEN Some("Completed")
    ELSE IF s = "abandoned" THEN Some("Abandoned")
    ELSE None

(* Option::unwrap_or *)
unwrap_or(o, default) == IF IsSome(o) THEN Unwrap(o) ELSE default

(* row_to_session: the status of the row read from its stored string. *)
row_to_session_status(stored) == unwrap_or(from_str(stored), "Active")

----------------------------------------------------------------------------
(* db.rs: the store.  db is the record of the four tables. *)

EmptyDb == [projects |-> <<>>, sessions |-> <<>>, heartbeats |-> <<>>, commits |-> <<>>]

(* COALESCE(?, column) *)
Coalesce(new, old) == IF IsSome(new) THEN new ELSE old

(* SELECT ... FROM projects WHERE path = ?  -> optional project id *)
get_project_by_path(d, path) ==
    LET ids == {i \in 1..Len(d.projects) : d.projects[i].path = path}
    IN IF ids = {} THEN None ELSE Some(CHOOSE i \in ids : \A j \in ids : i <= j)

(* Mutant: the UPDATE sets the columns to the arguments, null or not. *)
get_or_create_project_overwriting(d, path, git_remote, display_name, work_item_pattern, t) ==
    LET found == get_project_by_path(d, path)
    IN IF IsSome(found)
       THEN LET id == Unwrap(found)
                p == d.projects[id]
            IN IF IsSome(git_remote) \/ IsSome(display_name) \/ IsSome(work_item_pattern)
               THEN [db |-> [d EXCEPT !.projects[id] =
                                [p EXCEPT !.git_remote = git_remote,
                                          !.display_name = display_name,
                                          !.work_item_pattern = work_item_pattern]],
                     id |-> id]
               ELSE [db |-> d, id |-> id]
       ELSE [db |-> [d EXCEPT !.projects = Append(@,
                        [path |-> path, git_remote |-> git_remote,
                         display_name |-> display_name,
                         work_item_pattern |-> work_item_pattern,
                         created_at |-> t])],
             id |-> Len(d.projects) + 1]

(* Returns [db, id]: the store after the call and the project's id. *)
get_or_create_project(d, path, git_remote, display_name, work_item_pattern, t) ==
    LET found == get_project_by_path(d, path)
    IN IF IsSome(found)
       THEN LET id == Unwrap(found)
                p == d.projects[id]
            IN IF IsSome(git_remote) \/ IsSome(display_name) \/ IsSome(work_item_pattern)
               THEN [db |-> [d EXCEPT !.projects[id] =
                                [p EXCEPT !.git_remote = Coalesce(git_remote, @),
                                          !.display_name = Coalesce(display_name, @),
                                          !.work_item_pattern =
                                              Coalesce(work_item_pattern, @)]],
                     id |-> id]
               ELSE [db |-> d, id |-> id]
       ELSE [db |-> [d EXCEPT !.projects = Append(@,
                        [path |-> path, git_remote |-> git_remote,
                         display_name |-> display_name,
                         work_item_pattern |-> work_item_pattern,
                         created_at |-> t])],
             id |-> Len(d.projects) + 1]

(* INSERT INTO sessions ...; returns [db, id]. *)
create_session(d, project_id, branch, work_item, start_commit, t) ==
    [db |-> [d EXCEPT !.sessions = Append(@,
                [project_id |-> project_id, branch |-> branch, work_item |-> work_item,
                 start_commit |-> start_commit, end_commit |-> None,
                 started_at |-> t, ended_at |-> None, active_seconds |-> None,
                 status |-> "active"])],
     id |-> Len(d.sessions) + 1]

(* Mutant: the query without its WHERE status = 'active'. *)
get_all_active_sessions_unfiltered(d) == [i \in 1..Len(d.sessions) |-> i]

(* The ids of the rows WHERE status = 'active', in table order. *)
get_all_active_sessions(d) ==
    LET F[i \in 0..Len(d.sessions)] ==
            IF i = 0 THEN <<>>
            ELSE IF d.sessions[i].status = "active" THEN Append(F[i - 1], i)
                 ELSE F[i - 1]
    IN F[Len(d.sessions)]

(* WHERE project_id = ? AND status = 'active' ORDER BY started_at DESC      *)
(* LIMIT 1 -> optional session id.  Among rows with the same started_at    *)
(* SQLite may return any; the model takes the latest row.                  *)
get_active_session(d, project_id) ==
    LET ids == {i \in 1..Len(d.sessions) :
                    /\ d.sessions[i].project_id = project_id
                    /\ d.sessions[i].status = "active"}
    IN IF ids = {} THEN None
       ELSE Some(CHOOSE i \in ids : \A j \in ids :
                    \/ d.sessions[i].started_at > d.sessions[j].started_at
                    \/ (d.sessions[i].started_at = d.sessions[j].started_at /\ i >= j))

(* Mutant: the UPDATE without the ended_at column. *)
complete_session_without_ended_at(d, session_id, end_commit, active_seconds, status, t) ==
    IF session_id \in 1..Len(d.sessions)
    THEN [d EXCEPT !.sessions[session_id] =
            [@ EXCEPT !.end_commit = end_commit,
                      !.active_seconds = Some(active_seconds), !.status = status]]
    ELSE d

(* Mutant: the UPDATE without the active_seconds column. *)
complete_session_without_seconds(d, session_id, end_commit, active_seconds, status, t) ==
    IF session_id \in 1..Len(d.sessions)
    THEN [d EXCEPT !.sessions[session_id] =
            [@ EXCEPT !.ended_at = Some(t), !.end_commit = end_commit, !.status = status]]
    ELSE d

(* UPDATE sessions SET ended_at, end_commit, active_seconds, status WHERE id = ? *)
complete_session(d, session_id, end_commit, active_seconds, status, t) ==
    IF session_id \in 1..Len(d.sessions)
    THEN [d EXCEPT !.sessions[session_id] =
            [@ EXCEPT !.ended_at = Some(t), !.end_commit = end_commit,
                      !.active_seconds = Some(active_seconds), !.status = status]]
    ELSE d

(* Mutant: the session's earlier heartbeats are replaced by the new one. *)
db_record_heartbeat_latest_only(d, session_id, t) ==
    [d EXCEPT !.heartbeats =
        Append(SelectSeq(@, LAMBDA h : h.session_id # session_id),
               [session_id |-> session_id, timestamp |-> t])]

(* INSERT INTO heartbeats (session_id, timestamp) *)
db_record_heartbeat(d, session_id, t) ==
    [d EXCEPT !.heartbeats = Append(@, [session_id |-> session_id, timestamp |-> t])]

(* Stable insertion of h into a sequence ordered by timestamp. *)
RECURSIVE InsertByTimestamp(_, _)
InsertByTimestamp(s, h) ==
    IF s = <<>> THEN <<h>>
    ELSE IF s[Len(s)].timestamp <= h.timestamp THEN Append(s, h)
         ELSE Append(InsertByTimestamp(SubSeq(s, 1, Len(s) - 1), h), s[Len(s)])

(* SELECT ... FROM heartbeats WHERE session_id = ? ORDER BY timestamp *)
get_heartbeats(d, session_id) ==
    LET mine == SelectSeq(d.heartbeats, LAMBDA h : h.session_id = session_id)
        F[i \in 0..Len(mine)] ==
            IF i = 0 THEN <<>> ELSE InsertByTimestamp(F[i - 1], mine[i])
    IN F[Len(mine)]

(* The rank of a path in the order of ORDER BY path. *)
PathRank(path) == IF path = "/a" THEN 1 ELSE 2

(* SELECT ... FROM projects ORDER BY path  -> the project ids in that order *)
list_projects(d) ==
    LET Insert(s, id) ==
            LET before == SelectSeq(s, LAMBDA j :
                              PathRank(d.projects[j].path) <= PathRank(d.projects[id].path))
                after == SelectSeq(s, LAMBDA j :
                              PathRank(d.projects[j].path) > PathRank(d.projects[id].path))
            IN before \o <<id>> \o after
        F[i \in 0..Len(d.projects)] == IF i = 0 THEN <<>> ELSE Insert(F[i - 1], i)
    IN F[Len(d.projects)]

(* Mutant: the range also takes a session started exactly at its end. *)
get_sessions_in_range_inclusive(d, start, end, project_id) ==
    LET ids == SelectSeq([i \in 1..Len(d.sessions) |-> i], LAMBDA i :
                   /\ d.sessions[i].started_at >= start
                   /\ d.sessions[i].started_at <= end
                   /\ (IsSome(project_id) => d.sessions[i].project_id = Unwrap(project_id))
                   /\ d.sessions[i].status # "active")
        Insert(s, id) ==
            SelectSeq(s, LAMBDA j : d.sessions[j].started_at <= d.sessions[id].started_at)
                \o <<id>>
                \o SelectSeq(s, LAMBDA j : d.sessions[j].started_at > d.sessions[id].started_at)
        F[i \in 0..Len(ids)] == IF i = 0 THEN <<>> ELSE Insert(F[i - 1], ids[i])
    IN F[Len(ids)]

(* WHERE started_at >= ? AND started_at < ? [AND project_id = ?] AND         *)
(* status != 'active' ORDER BY started_at  -> the session ids in that       *)
(* order.  The comparison is one of RFC 3339 texts of UTC times, which      *)
(* order as the times do; rows with the same started_at come in table       *)
(* order.                                                                   *)
get_sessions_in_range(d, start, end, project_id) ==
    LET ids == SelectSeq([i \in 1..Len(d.sessions) |-> i], LAMBDA i :
                   /\ d.sessions[i].started_at >= start
                   /\ d.sessions[i].started_at < end
                   /\ (IsSome(project_id) => d.sessions[i].project_id = Unwrap(project_id))
                   /\ d.sessions[i].status # "active")
        Insert(s, id) ==
            SelectSeq(s, LAMBDA j : d.sessions[j].started_at <= d.sessions[id].started_at)
                \o <<id>>
                \o SelectSeq(s, LAMBDA j : d.sessions[j].started_at > d.sessions[id].started_at)
        F[i \in 0..Len(ids)] == IF i = 0 THEN <<>> ELSE Insert(F[i - 1], ids[i])
    IN F[Len(ids)]

(* SELECT ... FROM commits WHERE session_id = ? ORDER BY committed_at: the  *)
(* commit rows of a session by commit time, a row without one (NULL) before *)
(* the others; rows with the same committed_at come in table order.         *)
get_commits(d, session_id) ==
    LET rows == SelectSeq(d.commits, LAMBDA c : c.session_id = session_id)
        key(c) == IF IsSome(c.committed_at) THEN Unwrap(c.committed_at) ELSE -1
        Insert(s, c) ==
            SelectSeq(s, LAMBDA x : key(x) <= key(c)) \o <<c>>
                \o SelectSeq(s, LAMBDA x : key(x) > key(c))
        F[i \in 0..Len(rows)] == IF i = 0 THEN <<>> ELSE Insert(F[i - 1], rows[i])
    IN F[Len(rows)]

(* INSERT INTO commits ... for each commit of the list *)
record_commits(d, session_id, commits) ==
    [d EXCEPT !.commits = @ \o
        [i \in 1..Len(commits) |->
            [session_id |-> session_id, hash |-> commits[i].hash,
             committed_at |-> commits[i].committed_at]]]

----------------------------------------------------------------------------
(* tracker.rs: pure helpers *)

(* Mutant: a gap counts only when it is shorter than the timeout. *)
calculate_active_time_exclusive(heartbeats, idle_timeout_minutes) ==
    IF heartbeats = <<>> THEN 0
    ELSE LET timeout_seconds == idle_timeout_minutes * SecondsPerMinute
             F[i \in 1..Len(heartbeats)] ==
                 IF i = 1 THEN 0
                 ELSE LET interval == num_seconds(heartbeats[i].timestamp
                                                     - heartbeats[i - 1].timestamp)
                      IN IF interval < timeout_seconds THEN F[i - 1] + interval
                         ELSE F[i - 1]
         IN F[Len(heartbeats)]

(* Mutant: the gaps are added in the unit of the clock instead of in whole  *)
(* seconds.                                                                 *)
calculate_active_time_in_clock_units(heartbeats, idle_timeout_minutes) ==
    IF heartbeats = <<>> THEN 0
    ELSE LET timeout_seconds == idle_timeout_minutes * SecondsPerMinute
             F[i \in 1..Len(heartbeats)] ==
                 IF i = 1 THEN 0
                 ELSE LET interval == heartbeats[i].timestamp - heartbeats[i - 1].timestamp
                      IN IF num_seconds(interval) <= timeout_seconds
                         THEN F[i - 1] + interval
                         ELSE F[i - 1]
         IN F[Len(heartbeats)]

(* Sum of the whole seconds of the gaps between consecutive heartbeats      *)
(* whose whole seconds are <= the timeout.                                  *)
calculate_active_time(heartbeats, idle_timeout_minutes) ==
    IF heartbeats = <<>> THEN 0
    ELSE LET timeout_seconds == idle_timeout_minutes * SecondsPerMinute
             F[i \in 1..Len(heartbeats)] ==
                 IF i = 1 THEN 0
                 ELSE LET interval == num_seconds(heartbeats[i].timestamp
                                                     - heartbeats[i - 1].timestamp)
                      IN IF interval <= timeout_seconds THEN F[i - 1] + interval
                         ELSE F[i - 1]
         IN F[Len(heartbeats)]

(* main.rs calculate_active_time_with_current, read at time t: the same     *)
(* sum, and the whole seconds from the last heartbeat to t when they are    *)
(* <= the timeout.                                                          *)
calculate_active_time_with_current(heartbeats, idle_timeout_minutes, t) ==
    IF heartbeats = <<>> THEN 0
    ELSE LET timeout_seconds == idle_timeout_minutes * SecondsPerMinute
             F[i \in 1..Len(heartbeats)] ==
                 IF i = 1 THEN 0
                 ELSE LET interval == num_seconds(heartbeats[i].timestamp
                                                     - heartbeats[i - 1].timestamp)
                      IN IF interval <= timeout_seconds THEN F[i - 1] + interval
                         ELSE F[i - 1]
             since_last == num_seconds(t - heartbeats[Len(heartbeats)].timestamp)
         IN IF since_last <= timeout_seconds THEN F[Len(heartbeats)] + since_last
            ELSE F[Len(heartbeats)]

(* Regex::new(pattern): whether the pattern compiles. *)
RegexCompiles(pattern) == pattern # "([A-Z"

(* The branch names and the patterns of the table below. *)
Branches == {"feature/ABC-1", "main"}
Patterns == {"([A-Z", "([A-Z]+-[0-9]+)", "feature/.*", "feature/([A-Z]+-[0-9]+)",
             "(wip/)?main"}

(* Regex::captures(branch): <<>> when there is no match, else the groups    *)
(* <<group 0, group 1>> with an absent group 1 when the pattern has none   *)
(* or when its group 1 took no part in the match.                           *)
RegexCaptures(pattern, branch) ==
    IF pattern = "([A-Z]+-[0-9]+)" /\ branch = "feature/ABC-1"
    THEN Some([g0 |-> Some("ABC-1"), g1 |-> Some("ABC-1")])
    ELSE IF pattern = "feature/.*" /\ branch = "feature/ABC-1"
    THEN Some([g0 |-> Some("feature/ABC-1"), g1 |-> None])
    ELSE IF pattern = "feature/([A-Z]+-[0-9]+)" /\ branch = "feature/ABC-1"
    THEN Some([g0 |-> Some("feature/ABC-1"), g1 |-> Some("ABC-1")])
    ELSE IF pattern = "(wip/)?main" /\ branch = "main"
    THEN Some([g0 |-> Some("main"), g1 |-> None])
    ELSE None

(* Mutant: the entire match is returned even when group 1 matched. *)
extract_work_item_whole_match(branch, pattern) ==
    IF ~IsSome(pattern) THEN None
    ELSE IF ~RegexCompiles(Unwrap(pattern)) THEN None
    ELSE LET caps == RegexCaptures(Unwrap(pattern), branch)
         IN IF ~IsSome(caps) THEN None ELSE Unwrap(caps).g0

extract_work_item(branch, pattern) ==
    IF ~IsSome(pattern) THEN None
    ELSE IF ~RegexCompiles(Unwrap(pattern)) THEN None
    ELSE LET caps == RegexCaptures(Unwrap(pattern), branch)
         IN IF ~IsSome(caps) THEN None
            ELSE IF IsSome(Unwrap(caps).g1) THEN Unwrap(caps).g1
                 ELSE Unwrap(caps).g0

----------------------------------------------------------------------------
(* i64 / and %: the quotient rounded towards zero and its remainder. *)
TruncDiv(a, b) == IF a >= 0 THEN a \div b ELSE -((-a) \div b)
TruncRem(a, b) == a - b * TruncDiv(a, b)

(* The decimal text of an integer, as format!("{}", n) writes it. *)
DecimalDigits == <<"0", "1", "2", "3", "4", "5", "6", "7", "8", "9">>
RECURSIVE Decimal(_)
Decimal(n) ==
    IF n < 0 THEN "-" \o Decimal(-n)
    ELSE IF n < 10 THEN DecimalDigits[n + 1]
    ELSE Decimal(n \div 10) \o DecimalDigits[(n % 10) + 1]

SecondsPerHour == 3600

(* Mutant: a started minute is shown as a whole one. *)
format_duration_rounding_up(seconds) ==
    LET hours == TruncDiv(seconds, SecondsPerHour)
        minutes == TruncDiv(TruncRem(seconds, SecondsPerHour) + SecondsPerMinute - 1,
                            SecondsPerMinute)
    IN IF hours > 0 THEN Decimal(hours) \o "h " \o Decimal(minutes) \o "m"
       ELSE Decimal(minutes) \o "m"

format_duration(seconds) ==
    LET hours == TruncDiv(seconds, SecondsPerHour)
        minutes == TruncDiv(TruncRem(seconds, SecondsPerHour), SecondsPerMinute)
    IN IF hours > 0 THEN Decimal(hours) \o "h " \o Decimal(minutes) \o "m"
       ELSE Decimal(minutes) \o "m"

----------------------------------------------------------------------------
(* tracker.rs: the reconciliation sweep *)

(* Mutant: the cutoff compared with >= instead of >. *)
is_abandoned_inclusive(heartbeats, config, t) ==
    IF heartbeats = <<>> THEN FALSE
    ELSE LET timeout == DurationMinutes(config.idle_timeout_minutes)
             cutoff == heartbeats[Len(heartbeats)].timestamp + timeout
         IN t >= cutoff

(* Mutant: the cutoff without the timeout added. *)
is_abandoned_without_timeout(heartbeats, config, t) ==
    IF heartbeats = <<>> THEN FALSE
    ELSE t > heartbeats[Len(heartbeats)].timestamp

(* The sweep's test on one session's heartbeats, read at time t: there is   *)
(* a last heartbeat and Utc::now() > last_heartbeat.timestamp + timeout.    *)
is_abandoned(heartbeats, config, t) ==
    IF heartbeats = <<>> THEN FALSE
    ELSE LET timeout == DurationMinutes(config.idle_timeout_minutes)
             cutoff == heartbeats[Len(heartbeats)].timestamp + timeout
         IN t > cutoff

(* Mutant: the sweep stores zero instead of the accumulated time. *)
sweep_one_zero_seconds(d, session_id, config, t) ==
    LET heartbeats == get_heartbeats(d, session_id)
    IN IF is_abandoned(heartbeats, config, t)
       THEN complete_session(d, session_id, None, 0, "abandoned", t)
       ELSE d

(* The body of the sweep's loop for one session. *)
sweep_one(d, session_id, config, t) ==
    LET heartbeats == get_heartbeats(d, session_id)
    IN IF is_abandoned(heartbeats, config, t)
       THEN complete_session(d, session_id, None,
                calculate_active_time(heartbeats, config.idle_timeout_minutes),
                "abandoned", t)
       ELSE d

(* Mutant: the loop leaves after the first Active session. *)
close_abandoned_sessions_first_only(d, config, t) ==
    LET active_sessions == get_all_active_sessions(d)
    IN IF active_sessions = <<>> THEN d ELSE sweep_one(d, active_sessions[1], config, t)

close_abandoned_sessions(d, config, t) ==
    LET active_sessions == get_all_active_sessions(d)
        F[i \in 0..Len(active_sessions)] ==
            IF i = 0 THEN d ELSE sweep_one(F[i - 1], active_sessions[i], config, t)
    IN F[Len(active_sessions)]

----------------------------------------------------------------------------
(* tracker.rs: the three operations, each run to completion at time t.      *)
(* Each returns the store after the call, the result (Ok or Err) and the    *)
(* session it found, created or completed.                                  *)

(* Mutant: no check for an already Active session. *)
start_session_unguarded(d, path, git, config, t) ==
    LET d1 == close_abandoned_sessions(d, config, t)
        gp == get_or_create_project(d1, path,
                  IF git.ok THEN git.remote_url ELSE None,
                  config.project_name, config.work_item_pattern, t)
        branch == IF git.ok THEN git.branch ELSE "unknown"
        work_item == extract_work_item(branch, config.work_item_pattern)
        cs == create_session(gp.db, gp.id, branch, work_item,
                  IF git.ok THEN git.head_commit ELSE None, t)
    IN [db |-> db_record_heartbeat(cs.db, cs.id, t), result |-> "Ok",
        session |-> Some(cs.id), created |-> TRUE]

(* Mutant: a Start that finds an Active session records a heartbeat on it. *)
start_session_touching(d, path, git, config, t) ==
    LET d1 == close_abandoned_sessions(d, config, t)
        gp == get_or_create_project(d1, path,
                  IF git.ok THEN git.remote_url ELSE None,
                  config.project_name, config.work_item_pattern, t)
        existing == get_active_session(gp.db, gp.id)
    IN IF IsSome(existing)
       THEN [db |-> db_record_heartbeat(gp.db, Unwrap(existing), t), result |-> "Ok",
             session |-> existing, created |-> FALSE]
       ELSE LET branch == IF git.ok THEN git.branch ELSE "unknown"
                work_item == extract_work_item(branch, config.work_item_pattern)
                cs == create_session(gp.db, gp.id, branch, work_item,
                          IF git.ok THEN git.head_commit ELSE None, t)
            IN [db |-> db_record_heartbeat(cs.db, cs.id, t), result |-> "Ok",
                session |-> Some(cs.id), created |-> TRUE]

(* Mutant: the session is created without its initial heartbeat. *)
start_session_without_heartbeat(d, path, git, config, t) ==
    LET d1 == close_abandoned_sessions(d, config, t)
        gp == get_or_create_project(d1, path,
                  IF git.ok THEN git.remote_url ELSE None,
                  config.project_name, config.work_item_pattern, t)
        existing == get_active_session(gp.db, gp.id)
    IN IF IsSome(existing)
       THEN [db |-> gp.db, result |-> "Ok", session |-> existing, created |-> FALSE]
       ELSE LET branch == IF git.ok THEN git.branch ELSE "unknown"
                work_item == extract_work_item(branch, config.work_item_pattern)
                cs == create_session(gp.db, gp.id, branch, work_item,
                          IF git.ok THEN git.head_commit ELSE None, t)
            IN [db |-> cs.db, result |-> "Ok", session |-> Some(cs.id), created |-> TRUE]

(* Mutant: the sweep looks only at the sessions of the Start's own project. *)
start_session_sweeping_own_project(d, path, git, config, t) ==
    LET own == get_project_by_path(d, path)
        mine == SelectSeq(get_all_active_sessions(d), LAMBDA i :
                    IsSome(own) /\ d.sessions[i].project_id = Unwrap(own))
        S[i \in 0..Len(mine)] ==
            IF i = 0 THEN d ELSE sweep_one(S[i - 1], mine[i], config, t)
        d1 == S[Len(mine)]
        gp == get_or_create_project(d1, path,
                  IF git.ok THEN git.remote_url ELSE None,
                  config.project_name, config.work_item_pattern, t)
        existing == get_active_session(gp.db, gp.id)
    IN IF IsSome(existing)
       THEN [db |-> gp.db, result |-> "Ok", session |-> existing, created |-> FALSE]
       ELSE LET branch == IF git.ok THEN git.branch ELSE "unknown"
                work_item == extract_work_item(branch, config.work_item_pattern)
                cs == create_session(gp.db, gp.id, branch, work_item,
                          IF git.ok THEN git.head_commit ELSE None, t)
            IN [db |-> db_record_heartbeat(cs.db, cs.id, t), result |-> "Ok",
                session |-> Some(cs.id), created |-> TRUE]

(* Mutant: the sweep runs at the end of the Start instead of at its         *)
(* beginning.                                                               *)
start_session_sweeping_last(d, path, git, config, t) ==
    LET gp == get_or_create_project(d, path,
                  IF git.ok THEN git.remote_url ELSE None,
                  config.project_name, config.work_item_pattern, t)
        existing == get_active_session(gp.db, gp.id)
    IN IF IsSome(existing)
       THEN [db |-> close_abandoned_sessions(gp.db, config, t), result |-> "Ok",
             session |-> existing, created |-> FALSE]
       ELSE LET branch == IF git.ok THEN git.branch ELSE "unknown"
                work_item == extract_work_item(branch, config.work_item_pattern)
                cs == create_session(gp.db, gp.id, branch, work_item,
                          IF git.ok THEN git.head_commit ELSE None, t)
            IN [db |-> close_abandoned_sessions(db_record_heartbeat(cs.db, cs.id, t),
                                                config, t),
                result |-> "Ok", session |-> Some(cs.id), created |-> TRUE]

start_session(d, path, git, config, t) ==
    LET d1 == close_abandoned_sessions(d, config, t)
        gp == get_or_create_project(d1, path,
                  IF git.ok THEN git.remote_url ELSE None,
                  config.project_name, config.work_item_pattern, t)
        existing == get_active_session(gp.db, gp.id)
    IN IF IsSome(existing)
       THEN [db |-> gp.db, result |-> "Ok", session |-> existing, created |-> FALSE]
       ELSE LET branch == IF git.ok THEN git.branch ELSE "unknown"
                work_item == extract_work_item(branch, config.work_item_pattern)
                cs == create_session(gp.db, gp.id, branch, work_item,
                          IF git.ok THEN git.head_commit ELSE None, t)
            IN [db |-> db_record_heartbeat(cs.db, cs.id, t), result |-> "Ok",
                session |-> Some(cs.id), created |-> TRUE]

(* Mutant: the heartbeat goes to the project's latest session, whatever     *)
(* its status.                                                              *)
record_heartbeat_any_status(d, path, t) ==
    LET project == get_project_by_path(d, path)
        mine == IF IsSome(project)
                THEN {i \in 1..Len(d.sessions) : d.sessions[i].project_id = Unwrap(project)}
                ELSE {}
    IN IF mine = {}
       THEN [db |-> d, result |-> "Ok", session |-> None, created |-> FALSE]
       ELSE LET id == CHOOSE i \in mine : \A j \in mine : i >= j
            IN [db |-> db_record_heartbeat(d, id, t), result |-> "Ok",
                session |-> Some(id), created |-> FALSE]

(* Mutant: the Heartbeat runs the sweep before it looks for its session. *)
record_heartbeat_sweeping(d, path, t) ==
    LET d1 == close_abandoned_sessions(d, NoProjectConfig, t)
        project == get_project_by_path(d1, path)
    IN IF ~IsSome(project)
       THEN [db |-> d1, result |-> "Ok", session |-> None, created |-> FALSE]
       ELSE LET session == get_active_session(d1, Unwrap(project))
            IN IF ~IsSome(session)
               THEN [db |-> d1, result |-> "Ok", session |-> None, created |-> FALSE]
               ELSE [db |-> db_record_heartbeat(d1, Unwrap(session), t), result |-> "Ok",
                     session |-> session, created |-> FALSE]

record_heartbeat(d, path, t) ==
    LET project == get_project_by_path(d, path)
    IN IF ~IsSome(project)
       THEN [db |-> d, result |-> "Ok", session |-> None, created |-> FALSE]
       ELSE LET session == get_active_session(d, Unwrap(project))
            IN IF ~IsSome(session)
               THEN [db |-> d, result |-> "Ok", session |-> None, created |-> FALSE]
               ELSE [db |-> db_record_heartbeat(d, Unwrap(session), t), result |-> "Ok",
                     session |-> session, created |-> FALSE]

(* Mutant: a failure to read the git state or the commit log is returned    *)
(* as the Stop's error, the session left as it was.                         *)
stop_session_propagating(d, path, git, log, config, t) ==
    LET project == get_project_by_path(d, path)
    IN IF ~IsSome(project)
       THEN [db |-> d, result |-> "Err", session |-> None, created |-> FALSE]
       ELSE LET session == get_active_session(d, Unwrap(project))
            IN IF ~IsSome(session)
               THEN [db |-> d, result |-> "Ok", session |-> None, created |-> FALSE]
               ELSE IF ~git.ok \/ (IsSome(d.sessions[Unwrap(session)].start_commit)
                                     /\ ~log.ok)
               THEN [db |-> d, result |-> "Err", session |-> session, created |-> FALSE]
               ELSE LET id == Unwrap(session)
                        heartbeats == get_heartbeats(d, id)
                        active_seconds ==
                            calculate_active_time(heartbeats, config.idle_timeout_minutes)
                        d1 == IF IsSome(d.sessions[id].start_commit) /\ log.commits # <<>>
                              THEN record_commits(d, id, log.commits)
                              ELSE d
                    IN [db |-> complete_session(d1, id, git.head_commit, active_seconds,
                                   "completed", t),
                        result |-> "Ok", session |-> session, created |-> FALSE]

stop_session(d, path, git, log, config, t) ==
    LET project == get_project_by_path(d, path)
    IN IF ~IsSome(project)
       THEN [db |-> d, result |-> "Err", session |-> None, created |-> FALSE]
       ELSE LET session == get_active_session(d, Unwrap(project))
            IN IF ~IsSome(session)
               THEN [db |-> d, result |-> "Ok", session |-> None, created |-> FALSE]
               ELSE LET id == Unwrap(session)
                        end_commit == IF git.ok THEN git.head_commit ELSE None
                        heartbeats == get_heartbeats(d, id)
                        active_seconds ==
                            calculate_active_time(heartbeats, config.idle_timeout_minutes)
                        d1 == IF IsSome(d.sessions[id].start_commit) /\ log.ok
                                 /\ log.commits # <<>>
                              THEN record_commits(d, id, log.commits)
                              ELSE d
                    IN [db |-> complete_session(d1, id, end_commit, active_seconds,
                                   "completed", t),
                        result |-> "Ok", session |-> session, created |-> FALSE]

----------------------------------------------------------------------------
(* The sequential system: one hook invocation at a time (main.rs), each     *)
(* running to completion, with the wall clock advancing between them.       *)
(* last records the invocation that made the latest step: the operation,    *)
(* its path, its result, the session it found, created or completed,        *)
(* whether it created a session and whether it changed an existing          *)
(* project's record.                                                        *)

Procs == {1, 2}

Idle == [p \in Procs |-> [pc |-> "idle"]]

Init ==
    /\ db = EmptyDb
    /\ now = 0
    /\ last = [op |-> "init", path |-> "", result |-> "Ok", session |-> None,
               created |-> FALSE, merged |-> FALSE]
    /\ procs = Idle
    /\ runs = 0

WithinBounds(d) ==
    /\ Len(d.sessions) <= MaxSessions
    /\ Len(d.heartbeats) <= MaxHeartbeats

Done(op, path, r) ==
    /\ WithinBounds(r.db)
    /\ db' = r.db
    /\ last' = [op |-> op, path |-> path, result |-> r.result, session |-> r.session,
                created |-> r.created,
                merged |-> (Len(r.db.projects) = Len(db.projects)
                            /\ r.db.projects # db.projects)]
    /\ UNCHANGED <<now, procs, runs>>

Start ==
    \E path \in Paths : \E git \in GitInfos(path), config \in Configs(path) :
        Done("start", path, start_session(db, path, git, config, now))

Heartbeat ==
    \E path \in Paths : Done("heartbeat", path, record_heartbeat(db, path, now))

Stop ==
    \E path \in Paths : \E git \in GitInfos(path), log \in CommitLogs(path), config \in Configs(path) :
        Done("stop", path, stop_session(db, path, git, log, config, now))

Tick ==
    \E step \in TickSteps :
        /\ now + step <= MaxTime
        /\ now' = now + step
        /\ last' = [op |-> "tick", path |-> "", result |-> "Ok", session |-> None,
                    created |-> FALSE, merged |-> FALSE]
        /\ UNCHANGED <<db, procs, runs>>

Next == Start \/ Heartbeat \/ Stop \/ Tick

Spec == Init /\ [][Next]_vars

----------------------------------------------------------------------------
(* The sequential system with Start invoked again and again: a Start that   *)
(* can run eventually does.  So that the bounds of the store never stand    *)
(* in the way of a Start, the clock and the Heartbeats stop short of a      *)
(* state where a stale Active session is left with no room in the store     *)
(* for the session and the heartbeat of the Start that closes it.           *)
RoomForStart ==
    (\E i \in 1..Len(db.sessions) :
        /\ db.sessions[i].status = "active"
        /\ is_abandoned(get_heartbeats(db, i), NoProjectConfig, now))
        => /\ Len(db.sessions) < MaxSessions
           /\ Len(db.heartbeats) < MaxHeartbeats

HeartbeatLive == Heartbeat /\ RoomForStart'

TickLive == Tick /\ RoomForStart'

NextLive == Start \/ HeartbeatLive \/ Stop \/ TickLive

SpecLive == Init /\ [][NextLive]_vars /\ WF_vars(TickLive) /\ []<><<Start>>_vars

----------------------------------------------------------------------------
(* The concurrent system: up to two hook invocations run as separate        *)
(* processes on the one store.  Each call of a Database method is one       *)
(* atomic step; the steps of the two processes, and the clock, interleave   *)
(* freely.  procs[p] holds the position and the local variables of          *)
(* process p; runs counts the invocations begun.                            *)

Running(pc, path, git, config, log) ==
    [pc |-> pc, path |-> path, git |-> git, config |-> config, log |-> log,
     queue |-> <<>>, project |-> None, session |-> None, start_commit |-> None,
     heartbeats |-> <<>>, merged |-> FALSE]

Goto(p, pc) == procs' = [procs EXCEPT ![p].pc = pc]

(* The invocation of process p returns. *)
Return(p, op, result, session, created) ==
    /\ procs' = [procs EXCEPT ![p] = [pc |-> "idle"]]
    /\ last' = [op |-> op, path |-> procs[p].path, result |-> result,
                session |-> session, created |-> created, merged |-> procs[p].merged]

(* main.rs cmd_start: the configuration is loaded, git information read. *)
BeginStart(p) ==
    /\ procs[p].pc = "idle" /\ runs < MaxRuns
    /\ \E path \in Paths : \E git \in GitInfos(path), config \in Configs(path) :
          procs' = [procs EXCEPT ![p] = Running("sweep_list", path, git, config, LogErr)]
    /\ runs' = runs + 1
    /\ UNCHANGED <<db, now, last>>

(* close_abandoned_sessions: db.get_all_active_sessions() *)
SweepList(p) ==
    /\ procs[p].pc = "sweep_list"
    /\ LET active_sessions == get_all_active_sessions(db)
       IN procs' = [procs EXCEPT ![p].queue = active_sessions,
                                 ![p].pc = IF active_sessions = <<>> THEN "project"
                                           ELSE "sweep_load"]
    /\ UNCHANGED <<db, now, last, runs>>

(* close_abandoned_sessions: db.get_heartbeats(session.id) and the test *)
SweepLoad(p) ==
    /\ procs[p].pc = "sweep_load"
    /\ LET heartbeats == get_heartbeats(db, Head(procs[p].queue))
           rest == Tail(procs[p].queue)
       IN IF is_abandoned(heartbeats, procs[p].config, now)
          THEN procs' = [procs EXCEPT ![p].heartbeats = heartbeats,
                                      ![p].pc = "sweep_close"]
          ELSE procs' = [procs EXCEPT ![p].queue = rest,
                                      ![p].pc = IF rest = <<>> THEN "project"
                                                ELSE "sweep_load"]
    /\ UNCHANGED <<db, now, last, runs>>

(* close_abandoned_sessions: db.complete_session(.., Abandoned) *)
SweepClose(p) ==
    /\ procs[p].pc = "sweep_close"
    /\ LET rest == Tail(procs[p].queue)
       IN /\ db' = complete_session(db, Head(procs[p].queue), None,
                       calculate_active_time(procs[p].heartbeats,
                                             procs[p].config.idle_timeout_minutes),
                       "abandoned", now)
          /\ procs' = [procs EXCEPT ![p].queue = rest, ![p].heartbeats = <<>>,
                                    ![p].pc = IF rest = <<>> THEN "project"
                                              ELSE "sweep_load"]
    /\ UNCHANGED <<now, last, runs>>

(* start_session: db.get_or_create_project(..) *)
StartProject(p) ==
    /\ procs[p].pc = "project"
    /\ LET git == procs[p].git
           config == procs[p].config
           gp == get_or_create_project(db, procs[p].path,
                     IF git.ok THEN git.remote_url ELSE None,
                     config.project_name, config.work_item_pattern, now)
       IN /\ db' = gp.db
          /\ procs' = [procs EXCEPT ![p].project = Some(gp.id), ![p].pc = "check",
                          ![p].merged = (Len(gp.db.projects) = Len(db.projects)
                                         /\ gp.db.projects # db.projects)]
    /\ UNCHANGED <<now, last, runs>>

(* start_session: db.get_active_session(project.id) and the early return *)
StartCheck(p) ==
    /\ procs[p].pc = "check"
    /\ LET existing == get_active_session(db, Unwrap(procs[p].project))
       IN IF IsSome(existing)
          THEN Return(p, "start", "Ok", existing, FALSE)
          ELSE Goto(p, "create") /\ UNCHANGED last
    /\ UNCHANGED <<db, now, runs>>

(* start_session: db.create_session(..) *)
StartCreate(p) ==
    /\ procs[p].pc = "create"
    /\ Len(db.sessions) < MaxSessions
    /\ LET git == procs[p].git
           branch == IF git.ok THEN git.branch ELSE "unknown"
           work_item == extract_work_item(branch, procs[p].config.work_item_pattern)
           cs == create_session(db, Unwrap(procs[p].project), branch, work_item,
                     IF git.ok THEN git.head_commit ELSE None, now)
       IN /\ db' = cs.db
          /\ procs' = [procs EXCEPT ![p].session = Some(cs.id),
                                    ![p].pc = "first_heartbeat"]
    /\ UNCHANGED <<now, last, runs>>

(* start_session: db.record_heartbeat(session.id) *)
StartHeartbeat(p) ==
    /\ procs[p].pc = "first_heartbeat"
    /\ Len(db.heartbeats) < MaxHeartbeats
    /\ db' = db_record_heartbeat(db, Unwrap(procs[p].session), now)
    /\ Return(p, "start", "Ok", procs[p].session, TRUE)
    /\ UNCHANGED <<now, runs>>

(* main.rs cmd_heartbeat *)
BeginHeartbeat(p) ==
    /\ procs[p].pc = "idle" /\ runs < MaxRuns
    /\ \E path \in Paths :
          procs' = [procs EXCEPT ![p] =
                        Running("hb_project", path, GitErr, NoProjectConfig, LogErr)]
    /\ runs' = runs + 1
    /\ UNCHANGED <<db, now, last>>

(* record_heartbeat: db.get_project_by_path(..) *)
HeartbeatProject(p) ==
    /\ procs[p].pc = "hb_project"
    /\ LET project == get_project_by_path(db, procs[p].path)
       IN IF ~IsSome(project)
          THEN Return(p, "heartbeat", "Ok", None, FALSE)
          ELSE /\ procs' = [procs EXCEPT ![p].project = project, ![p].pc = "hb_session"]
               /\ UNCHANGED last
    /\ UNCHANGED <<db, now, runs>>

(* record_heartbeat: db.get_active_session(project.id) *)
HeartbeatSession(p) ==
    /\ procs[p].pc = "hb_session"
    /\ LET session == get_active_session(db, Unwrap(procs[p].project))
       IN IF ~IsSome(session)
          THEN Return(p, "heartbeat", "Ok", None, FALSE)
          ELSE /\ procs' = [procs EXCEPT ![p].session = session, ![p].pc = "hb_insert"]
               /\ UNCHANGED last
    /\ UNCHANGED <<db, now, runs>>

(* record_heartbeat: db.record_heartbeat(session.id) *)
HeartbeatInsert(p) ==
    /\ procs[p].pc = "hb_insert"
    /\ Len(db.heartbeats) < MaxHeartbeats
    /\ db' = db_record_heartbeat(db, Unwrap(procs[p].session), now)
    /\ Return(p, "heartbeat", "Ok", procs[p].session, FALSE)
    /\ UNCHANGED <<now, runs>>

(* main.rs cmd_stop *)
BeginStop(p) ==
    /\ procs[p].pc = "idle" /\ runs < MaxRuns
    /\ \E path \in Paths : \E git \in GitInfos(path), log \in CommitLogs(path),
                              config \in Configs(path) :
          procs' = [procs EXCEPT ![p] = Running("stop_project", path, git, config, log)]
    /\ runs' = runs + 1
    /\ UNCHANGED <<db, now, last>>

(* stop_session: db.get_project_by_path(..).context("Project not found")? *)
StopProject(p) ==
    /\ procs[p].pc = "stop_project"
    /\ LET project == get_project_by_path(db, procs[p].path)
       IN IF ~IsSome(project)
          THEN Return(p, "stop", "Err", None, FALSE)
          ELSE /\ procs' = [procs EXCEPT ![p].project = project,
                                          ![p].pc = "stop_session"]
               /\ UNCHANGED last
    /\ UNCHANGED <<db, now, runs>>

(* stop_session: db.get_active_session(project.id) *)
StopSession(p) ==
    /\ procs[p].pc = "stop_session"
    /\ LET session == get_active_session(db, Unwrap(procs[p].project))
       IN IF ~IsSome(session)
          THEN Return(p, "stop", "Ok", None, FALSE)
          ELSE /\ procs' = [procs EXCEPT
                              ![p].session = session,
                              ![p].start_commit = db.sessions[Unwrap(session)].start_commit,
                              ![p].pc = "stop_load"]
               /\ UNCHANGED last
    /\ UNCHANGED <<db, now, runs>>

(* stop_session: db.get_heartbeats(session.id) *)
StopLoad(p) ==
    /\ procs[p].pc = "stop_load"
    /\ procs' = [procs EXCEPT
                    ![p].heartbeats = get_heartbeats(db, Unwrap(procs[p].session)),
                    ![p].pc = IF /\ IsSome(procs[p].start_commit)
                                 /\ procs[p].log.ok
                                 /\ procs[p].log.commits # <<>>
                              THEN "stop_commits" ELSE "stop_complete"]
    /\ UNCHANGED <<db, now, last, runs>>

(* stop_session: db.record_commits(session.id, &commits) *)
StopCommits(p) ==
    /\ procs[p].pc = "stop_commits"
    /\ db' = record_commits(db, Unwrap(procs[p].session), procs[p].log.commits)
    /\ Goto(p, "stop_complete")
    /\ UNCHANGED <<now, last, runs>>

(* stop_session: db.complete_session(.., Completed) *)
StopComplete(p) ==
    /\ procs[p].pc = "stop_complete"
    /\ db' = complete_session(db, Unwrap(procs[p].session),
                 IF procs[p].git.ok THEN procs[p].git.head_commit ELSE None,
                 calculate_active_time(procs[p].heartbeats,
                                       procs[p].config.idle_timeout_minutes),
                 "completed", now)
    /\ Return(p, "stop", "Ok", procs[p].session, FALSE)
    /\ UNCHANGED <<now, runs>>

(* The wall clock advances while invocations are in flight. *)
ClockAdvance ==
    \E step \in TickSteps :
        /\ now + step <= MaxTime
        /\ now' = now + step
        /\ UNCHANGED <<db, last, procs, runs>>

NextConc ==
    \/ \E p \in Procs : BeginStart(p)
    \/ \E p \in Procs : SweepList(p)
    \/ \E p \in Procs : SweepLoad(p)
    \/ \E p \in Procs : SweepClose(p)
    \/ \E p \in Procs : StartProject(p)
    \/ \E p \in Procs : StartCheck(p)
    \/ \E p \in Procs : StartCreate(p)
    \/ \E p \in Procs : StartHeartbeat(p)
    \/ \E p \in Procs : BeginHeartbeat(p)
    \/ \E p \in Procs : HeartbeatProject(p)
    \/ \E p \in Procs : HeartbeatSession(p)
    \/ \E p \in Procs : HeartbeatInsert(p)
    \/ \E p \in Procs : BeginStop(p)
    \/ \E p \in Procs : StopProject(p)
    \/ \E p \in Procs : StopSession(p)
    \/ \E p \in Procs : StopLoad(p)
    \/ \E p \in Procs : StopCommits(p)
    \/ \E p \in Procs : StopComplete(p)
    \/ ClockAdvance

SpecConc == Init /\ [][NextConc]_vars

----------------------------------------------------------------------------
(* report/mod.rs: the monthly report *)

(* The instant timestamps are counted from: 1 January of this year, 0:00. *)
TimestampOrigin == [year |-> 2024]

IsLeapYear(year) == (year % 4 = 0 /\ year % 100 # 0) \/ year % 400 = 0

DaysInMonth(year, month) ==
    IF month = 2 THEN (IF IsLeapYear(year) THEN 29 ELSE 28)
    ELSE IF month \in {4, 6, 9, 11} THEN 30 ELSE 31

(* The days from the origin to the first day of a month (of a year from     *)
(* the origin on).                                                          *)
RECURSIVE DaysBefore(_, _)
DaysBefore(year, month) ==
    IF year <= TimestampOrigin.year /\ month = 1 THEN 0
    ELSE IF month = 1 THEN DaysBefore(year - 1, 12) + DaysInMonth(year - 1, 12)
    ELSE DaysBefore(year, month - 1) + DaysInMonth(year, month - 1)

(* Utc.with_ymd_and_hms(year, month, 1, 0, 0, 0).single(): the first        *)
(* instant of the month, absent when there is no such month.                *)
with_ymd_and_hms(year, month) ==
    IF month \in 1..12
    THEN Some(DurationSeconds(DaysBefore(year, month) * 24 * 60 * SecondsPerMinute))
    ELSE None

(* str::to_lowercase on the names the model uses *)
to_lowercase(s) ==
    IF s = "Proj" THEN "proj" ELSE IF s = "RO" THEN "ro" ELSE IF s = "/B" THEN "/b" ELSE s

(* str::contains on the names the model uses: "ro" is part of "proj", and   *)
(* otherwise none is part of another.                                       *)
contains(haystack, needle) ==
    haystack = needle \/ (haystack = "proj" /\ needle = "ro")

(* The project filter of generate_report: a case-insensitive part of the    *)
(* display name (the path when there is none) or of the path.               *)
passes_filter(project, project_filter) ==
    IF ~IsSome(project_filter) THEN TRUE
    ELSE LET filter == Unwrap(project_filter)
             name == IF IsSome(project.display_name) THEN Unwrap(project.display_name)
                     ELSE project.path
         IN \/ contains(to_lowercase(name), to_lowercase(filter))
            \/ contains(to_lowercase(project.path), to_lowercase(filter))

(* commit.hash[..8.min(commit.hash.len())]: every hash of the model but     *)
(* the full one is shorter than 8.                                          *)
FullHash == "0123456789abcdef"
hash_prefix(hash) == IF hash = FullHash THEN "01234567" ELSE hash

(* Mutant: a full list drops its oldest entry for the commit that comes. *)
group_by_work_item_keeping_latest(d, sessions, max_commits_per_item) ==
    LET Push(list, commits) ==
            LET G[j \in 0..Len(commits)] ==
                    IF j = 0 THEN list
                    ELSE IF Len(G[j - 1]) < max_commits_per_item
                         THEN Append(G[j - 1], [hash |-> hash_prefix(commits[j].hash)])
                         ELSE Append(Tail(G[j - 1]),
                                     [hash |-> hash_prefix(commits[j].hash)])
            IN G[Len(commits)]
        F[i \in 0..Len(sessions)] ==
            IF i = 0 THEN <<>>
            ELSE LET session == d.sessions[sessions[i]]
                     work_item_id == IF IsSome(session.work_item)
                                     THEN Unwrap(session.work_item) ELSE session.branch
                     entry == IF work_item_id \in DOMAIN F[i - 1]
                              THEN F[i - 1][work_item_id]
                              ELSE [seconds |-> 0, commits |-> <<>>,
                                    branch |-> Some(session.branch)]
                     updated ==
                         [entry EXCEPT
                            !.seconds = @ + (IF IsSome(session.active_seconds)
                                             THEN Unwrap(session.active_seconds) ELSE 0),
                            !.commits = Push(@, get_commits(d, sessions[i]))]
                 IN [k \in DOMAIN F[i - 1] \cup {work_item_id} |->
                        IF k = work_item_id THEN updated ELSE F[i - 1][k]]
    IN F[Len(sessions)]

(* Mutant: the sessions are grouped by their branch alone. *)
group_by_work_item_keyed_by_branch(d, sessions, max_commits_per_item) ==
    LET Push(list, commits) ==
            LET G[j \in 0..Len(commits)] ==
                    IF j = 0 THEN list
                    ELSE IF Len(G[j - 1]) < max_commits_per_item
                         THEN Append(G[j - 1], [hash |-> hash_prefix(commits[j].hash)])
                         ELSE G[j - 1]
            IN G[Len(commits)]
        F[i \in 0..Len(sessions)] ==
            IF i = 0 THEN <<>>
            ELSE LET session == d.sessions[sessions[i]]
                     work_item_id == session.branch
                     entry == IF work_item_id \in DOMAIN F[i - 1]
                              THEN F[i - 1][work_item_id]
                              ELSE [seconds |-> 0, commits |-> <<>>,
                                    branch |-> Some(session.branch)]
                     updated ==
                         [entry EXCEPT
                            !.seconds = @ + (IF IsSome(session.active_seconds)
                                             THEN Unwrap(session.active_seconds) ELSE 0),
                            !.commits = Push(@, get_commits(d, sessions[i]))]
                 IN [k \in DOMAIN F[i - 1] \cup {work_item_id} |->
                        IF k = work_item_id THEN updated ELSE F[i - 1][k]]
    IN F[Len(sessions)]

(* The loop over the sessions of one project: the HashMap from work item    *)
(* id to (seconds, commits, branch), as a function on the keys entered.     *)
group_by_work_item(d, sessions, max_commits_per_item) ==
    LET Push(list, commits) ==
            LET G[j \in 0..Len(commits)] ==
                    IF j = 0 THEN list
                    ELSE IF Len(G[j - 1]) < max_commits_per_item
                         THEN Append(G[j - 1], [hash |-> hash_prefix(commits[j].hash)])
                         ELSE G[j - 1]
            IN G[Len(commits)]
        F[i \in 0..Len(sessions)] ==
            IF i = 0 THEN <<>>
            ELSE LET session == d.sessions[sessions[i]]
                     work_item_id == IF IsSome(session.work_item)
                                     THEN Unwrap(session.work_item) ELSE session.branch
                     entry == IF work_item_id \in DOMAIN F[i - 1]
                              THEN F[i - 1][work_item_id]
                              ELSE [seconds |-> 0, commits |-> <<>>,
                                    branch |-> Some(session.branch)]
                     updated ==
                         [entry EXCEPT
                            !.seconds = @ + (IF IsSome(session.active_seconds)
                                             THEN Unwrap(session.active_seconds) ELSE 0),
                            !.commits = Push(@, get_commits(d, sessions[i]))]
                 IN [k \in DOMAIN F[i - 1] \cup {work_item_id} |->
                        IF k = work_item_id THEN updated ELSE F[i - 1][k]]
    IN F[Len(sessions)]

(* Mutant: the reports are left in the order they were collected in. *)
sort_by_total_seconds_skipped(reports) == reports

(* Vec::sort_by(|a, b| b.total_seconds.cmp(&a.total_seconds)): a stable     *)
(* sort, the greatest total first.                                          *)
sort_by_total_seconds(reports) ==
    LET Insert(s, r) ==
            SelectSeq(s, LAMBDA x : x.total_seconds >= r.total_seconds)
                \o <<r>>
                \o SelectSeq(s, LAMBDA x : x.total_seconds < r.total_seconds)
        F[i \in 0..Len(reports)] == IF i = 0 THEN <<>> ELSE Insert(F[i - 1], reports[i])
    IN F[Len(reports)]

(* Mutant: the total is added before the project filter is applied. *)
report_project_total_before_filter(d, acc, id, start, end, project_filter, max_commits_per_item, hash_order) ==
    LET project == d.projects[id]
        sessions == get_sessions_in_range(d, start, end, Some(id))
        work_items == group_by_work_item(d, sessions, max_commits_per_item)
        keys == SelectSeq(hash_order, LAMBDA k : k \in DOMAIN work_items)
        S[i \in 0..Len(keys)] == IF i = 0 THEN 0 ELSE S[i - 1] + work_items[keys[i]].seconds
        project_total == S[Len(keys)]
        work_item_reports ==
            [i \in 1..Len(keys) |->
                [id |-> keys[i], branch |-> work_items[keys[i]].branch,
                 total_seconds |-> work_items[keys[i]].seconds,
                 commits |-> work_items[keys[i]].commits]]
    IN IF sessions = <<>> \/ project_total = 0 THEN acc
       ELSE IF ~passes_filter(project, project_filter)
       THEN [acc EXCEPT !.total_seconds = @ + project_total]
       ELSE [total_seconds |-> acc.total_seconds + project_total,
             project_reports |-> Append(acc.project_reports,
                [name |-> IF IsSome(project.display_name)
                          THEN Unwrap(project.display_name) ELSE project.path,
                 path |-> project.path,
                 total_seconds |-> project_total,
                 work_items |-> sort_by_total_seconds(work_item_reports)])]

(* The body of the loop over the projects, for the project with this id:    *)
(* acc holds total_seconds and project_reports.  hash_order is the order    *)
(* in which the HashMap hands out its keys.                                 *)
report_project(d, acc, id, start, end, project_filter, max_commits_per_item, hash_order) ==
    LET project == d.projects[id]
        sessions == get_sessions_in_range(d, start, end, Some(id))
        work_items == group_by_work_item(d, sessions, max_commits_per_item)
        keys == SelectSeq(hash_order, LAMBDA k : k \in DOMAIN work_items)
        S[i \in 0..Len(keys)] == IF i = 0 THEN 0 ELSE S[i - 1] + work_items[keys[i]].seconds
        project_total == S[Len(keys)]
        work_item_reports ==
            [i \in 1..Len(keys) |->
                [id |-> keys[i], branch |-> work_items[keys[i]].branch,
                 total_seconds |-> work_items[keys[i]].seconds,
                 commits |-> work_items[keys[i]].commits]]
    IN IF ~passes_filter(project, project_filter) THEN acc
       ELSE IF sessions = <<>> THEN acc
       ELSE IF project_total = 0 THEN acc
       ELSE [total_seconds |-> acc.total_seconds + project_total,
             project_reports |-> Append(acc.project_reports,
                [name |-> IF IsSome(project.display_name)
                          THEN Unwrap(project.display_name) ELSE project.path,
                 path |-> project.path,
                 total_seconds |-> project_total,
                 work_items |-> sort_by_total_seconds(work_item_reports)])]

(* format!("{}-{:02}", year, month) *)
period_of(year, month) ==
    Decimal(year) \o "-" \o (IF month < 10 THEN "0" ELSE "") \o Decimal(month)

generate_report(d, year, month, project_filter, max_commits_per_item, hash_order) ==
    LET start == with_ymd_and_hms(year, month)
        end == IF month = 12 THEN with_ymd_and_hms(year + 1, 1)
               ELSE with_ymd_and_hms(year, month + 1)
    IN IF ~IsSome(start) THEN [ok |-> FALSE, error |-> "Invalid start date"]
       ELSE IF ~IsSome(end) THEN [ok |-> FALSE, error |-> "Invalid end date"]
       ELSE LET projects == list_projects(d)
                F[i \in 0..Len(projects)] ==
                    IF i = 0 THEN [total_seconds |-> 0, project_reports |-> <<>>]
                    ELSE report_project(d, F[i - 1], projects[i], Unwrap(start),
                                        Unwrap(end), project_filter,
                                        max_commits_per_item, hash_order)
                done == F[Len(projects)]
            IN [ok |-> TRUE, period |-> period_of(year, month),
                total_seconds |-> done.total_seconds,
                projects |-> sort_by_total_seconds(done.project_reports)]

----------------------------------------------------------------------------
(* git.rs get_commits_between.  A repository is its commits 1..n with the   *)
(* parents of each: commit k is the k-th made, its commit time is k and     *)
(* its parents were made before it.  A revision names the commit of that    *)
(* number, or nothing when there is none.                                   *)

MaxCommits == 4
MaxParents == 2
WalkLimit == 100

Repositories ==
    LET R[n \in 0..MaxCommits] ==
            IF n = 0 THEN {<<>>}
            ELSE {Append(g, parents) :
                     g \in R[n - 1],
                     parents \in {P \in SUBSET (1..(n - 1)) : Cardinality(P) <= MaxParents}}
    IN UNION {R[n] : n \in 1..MaxCommits}

(* repo.rev_parse_single(rev).ok() *)
rev_parse_single(repo, rev) == IF rev \in DOMAIN repo THEN Some(rev) ELSE None

(* gix's walk from a tip, Sorting::ByCommitTimeNewestFirst: of the commits  *)
(* queued the one made last comes next, and its parents not yet seen are    *)
(* queued.                                                                  *)
rev_walk(repo, tip) ==
    LET Newest(queue) == CHOOSE c \in queue : \A x \in queue : x <= c
        W[i \in 0..Len(repo)] ==
            IF i = 0 THEN [out |-> <<>>, queue |-> {tip}, seen |-> {tip}]
            ELSE IF W[i - 1].queue = {} THEN W[i - 1]
            ELSE LET c == Newest(W[i - 1].queue)
                 IN [out |-> Append(W[i - 1].out, c),
                     queue |-> (W[i - 1].queue \ {c}) \cup (repo[c] \ W[i - 1].seen),
                     seen |-> W[i - 1].seen \cup repo[c]]
    IN W[Len(repo)].out

(* Vec::reverse *)
reverse(s) == [i \in 1..Len(s) |-> s[Len(s) + 1 - i]]

(* get_commits_between(path, start_commit, end_commit) in the repository    *)
(* at path, whose HEAD is head (None when it has no commit): the loop over  *)
(* the walk breaks at the start commit, and after WalkLimit commits when    *)
(* there is no start commit.                                                *)
get_commits_between(repo, head, start_commit, end_commit) ==
    LET end_oid == IF IsSome(end_commit) THEN rev_parse_single(repo, Unwrap(end_commit))
                   ELSE head
        start_oid == IF IsSome(start_commit)
                     THEN rev_parse_single(repo, Unwrap(start_commit)) ELSE None
    IN IF ~IsSome(end_oid)
       THEN [ok |-> FALSE, commits |-> <<>>,
             error |-> IF IsSome(end_commit) THEN "Failed to parse end commit"
                       ELSE "HEAD has no commit"]
       ELSE LET walk == rev_walk(repo, Unwrap(end_oid))
                L[i \in 0..Len(walk)] ==
                    IF i = 0 THEN [commits |-> <<>>, done |-> FALSE]
                    ELSE IF L[i - 1].done THEN L[i - 1]
                    ELSE IF IsSome(start_oid) /\ walk[i] = Unwrap(start_oid)
                         THEN [L[i - 1] EXCEPT !.done = TRUE]
                    ELSE LET pushed == Append(L[i - 1].commits,
                                              [hash |-> walk[i],
                                               committed_at |-> Some(walk[i])])
                         IN [commits |-> pushed,
                             done |-> ~IsSome(start_oid) /\ Len(pushed) >= WalkLimit]
            IN [ok |-> TRUE, commits |-> reverse(L[Len(walk)].commits)]

----------------------------------------------------------------------------
(* report/mod.rs parse_month.  A string is the sequence of its characters.  *)

IsDigit(c) == \E i \in 1..Len(DecimalDigits) : DecimalDigits[i] = c
DigitValue(c) == (CHOOSE i \in 1..Len(DecimalDigits) : DecimalDigits[i] = c) - 1

(* chrono's scan of a number: from min to max digits, taken greedily from   *)
(* the head of s; absent when there are fewer than min, else the value and  *)
(* the rest of s.                                                           *)
scan_number(s, min, max) ==
    LET n == CHOOSE k \in 0..Len(s) :
                 /\ k <= max
                 /\ \A i \in 1..k : IsDigit(s[i])
                 /\ (k = max \/ k = Len(s) \/ ~IsDigit(s[k + 1]))
        V[i \in 0..n] == IF i = 0 THEN 0 ELSE V[i - 1] * 10 + DigitValue(s[i])
    IN IF n < min THEN None ELSE Some([value |-> V[n], rest |-> SubSeq(s, n + 1, Len(s))])

(* The item %Y: with a sign any number of digits, without one up to four. *)
scan_year(s) ==
    IF s # <<>> /\ s[1] = "-"
    THEN LET v == scan_number(Tail(s), 1, Len(s))
         IN IF IsSome(v) THEN Some([Unwrap(v) EXCEPT !.value = -@]) ELSE None
    ELSE IF s # <<>> /\ s[1] = "+" THEN scan_number(Tail(s), 1, Len(s))
    ELSE scan_number(s, 1, 4)

(* A literal character of the format. *)
scan_literal(s, c) == IF s # <<>> /\ s[1] = c THEN Some(Tail(s)) ELSE None

(* NaiveDate::parse_from_str(s, "%Y-%m-%d") on a string without white       *)
(* space: the year, "-", a month of one or two digits, "-", a day of one    *)
(* or two digits and nothing after it, and the three a date of the          *)
(* calendar.  Absent when s does not parse.                                 *)
parse_from_str(s) ==
    LET year == scan_year(s)
        dash1 == IF IsSome(year) THEN scan_literal(Unwrap(year).rest, "-") ELSE None
        month == IF IsSome(dash1) THEN scan_number(Unwrap(dash1), 1, 2) ELSE None
        dash2 == IF IsSome(month) THEN scan_literal(Unwrap(month).rest, "-") ELSE None
        day == IF IsSome(dash2) THEN scan_number(Unwrap(dash2), 1, 2) ELSE None
    IN IF ~IsSome(day) THEN None
       ELSE IF Unwrap(day).rest # <<>> THEN None
       ELSE IF Unwrap(month).value \notin 1..12 THEN None
       ELSE IF Unwrap(day).value \notin
                   1..DaysInMonth(Unwrap(year).value, Unwrap(month).value) THEN None
       ELSE Some([year |-> Unwrap(year).value, month |-> Unwrap(month).value,
                  day |-> Unwrap(day).value])

parse_month(month_str) ==
    LET date == parse_from_str(month_str \o <<"-", "0", "1">>)
    IN IF ~IsSome(date) THEN [ok |-> FALSE, error |-> "Invalid month format"]
       ELSE [ok |-> TRUE, year |-> Unwrap(date).year, month |-> Unwrap(date).month]

----------------------------------------------------------------------------
(* The report command run on a store that earlier invocations have left:    *)
(* up to MaxReportSessions sessions of the projects at /a and /b, started   *)
(* in the last half second of December 2024 or at the first instant of      *)
(* January 2025, still Active or closed with 0, 30 or 60 active seconds.    *)

MaxReportSessions == 2

FirstOfJanuary == Unwrap(with_ymd_and_hms(TimestampOrigin.year + 1, 1))

(* How a session stands: Active, completed by a Stop right at its start,    *)
(* completed after a second heartbeat a minute later, or abandoned by the   *)
(* sweep after a second heartbeat half a minute later.                      *)
SessionKinds ==
    {[status |-> "active", active_seconds |-> None],
     [status |-> "completed", active_seconds |-> Some(0)],
     [status |-> "completed", active_seconds |-> Some(60)],
     [status |-> "abandoned", active_seconds |-> Some(30)]}

(* What a Start stores for a path and a branch (see GitInfos, Configs). *)
SessionOrigins ==
    {[path |-> "/a", branch |-> "feature/ABC-1", work_item |-> Some("ABC-1"),
      start_commit |-> Some("c1")],
     [path |-> "/a", branch |-> "main", work_item |-> None, start_commit |-> Some("c1")],
     [path |-> "/b", branch |-> "unknown", work_item |-> None, start_commit |-> None]}

SessionHistories ==
    {[origin |-> o, kind |-> k, started_at |-> t] :
        o \in SessionOrigins, k \in SessionKinds,
        t \in {FirstOfJanuary - 1, FirstOfJanuary}}

(* The last heartbeat of a session with this history, and when the session  *)
(* was closed: by its Stop at the last heartbeat, or by a sweep just after  *)
(* the last heartbeat had become older than the timeout.                    *)
LastBeat(h) ==
    h.started_at + DurationSeconds(IF IsSome(h.kind.active_seconds)
                                   THEN Unwrap(h.kind.active_seconds) ELSE 0)
EndedAt(h) ==
    IF h.kind.status = "active" THEN None
    ELSE IF h.kind.status = "completed" THEN Some(LastBeat(h))
    ELSE Some(LastBeat(h) + DurationMinutes(IdleTimeoutMinutes) + 1)

(* The store holding the sessions of these histories, in this order.  A     *)
(* completed session of a repository has recorded two commits: one made as  *)
(* it started, with a short hash of its own, and the one it ended on.       *)
StoreOf(histories) ==
    LET n == Len(histories)
        P[i \in 0..n] ==
            IF i = 0 THEN <<>>
            ELSE IF \E j \in 1..Len(P[i - 1]) : P[i - 1][j] = histories[i].origin.path
                 THEN P[i - 1]
                 ELSE Append(P[i - 1], histories[i].origin.path)
        paths == P[n]
        id_of(path) == CHOOSE j \in 1..Len(paths) : paths[j] = path
        first_of(path) == CHOOSE i \in 1..n :
                             /\ histories[i].origin.path = path
                             /\ \A j \in 1..(i - 1) : histories[j].origin.path # path
        H[i \in 0..n] ==
            IF i = 0 THEN <<>>
            ELSE H[i - 1] \o <<[session_id |-> i, timestamp |-> histories[i].started_at]>>
                    \o (IF LastBeat(histories[i]) > histories[i].started_at
                        THEN <<[session_id |-> i, timestamp |-> LastBeat(histories[i])]>>
                        ELSE <<>>)
        C[i \in 0..n] ==
            IF i = 0 THEN <<>>
            ELSE IF histories[i].kind.status = "completed"
                    /\ IsSome(histories[i].origin.start_commit)
                 THEN C[i - 1] \o
                        <<[session_id |-> i, hash |-> "e" \o Decimal(i),
                           committed_at |-> Some(histories[i].started_at)],
                          [session_id |-> i, hash |-> FullHash,
                           committed_at |-> Some(LastBeat(histories[i]))]>>
                 ELSE C[i - 1]
    IN [projects |->
            [j \in 1..Len(paths) |->
                [path |-> paths[j],
                 git_remote |-> IF paths[j] = "/a" THEN Some("origin1") ELSE None,
                 display_name |-> IF paths[j] = "/a" THEN Some("Proj") ELSE None,
                 work_item_pattern |-> IF paths[j] = "/a" THEN Some("([A-Z]+-[0-9]+)")
                                       ELSE None,
                 created_at |-> histories[first_of(paths[j])].started_at]],
        sessions |->
            [i \in 1..n |->
                LET h == histories[i]
                IN [project_id |-> id_of(h.origin.path), branch |-> h.origin.branch,
                    work_item |-> h.origin.work_item,
                    start_commit |-> h.origin.start_commit,
                    end_commit |-> IF h.kind.status = "completed"
                                      /\ IsSome(h.origin.start_commit)
                                   THEN Some(FullHash) ELSE None,
                    started_at |-> h.started_at,
                    ended_at |-> EndedAt(h),
                    active_seconds |-> h.kind.active_seconds,
                    status |-> h.kind.status]],
        heartbeats |-> H[n],
        commits |-> C[n]]

(* The stores the report runs on: the sessions are in the order they were   *)
(* started in, and a session of a project was started only when the         *)
(* sessions of that project before it had been closed.                      *)
ReportStores ==
    {StoreOf(hs) :
        hs \in {x \in UNION {[1..n -> SessionHistories] : n \in 0..MaxReportSessions} :
                   \A i, j \in 1..Len(x) :
                       i < j => /\ x[i].started_at <= x[j].started_at
                                /\ x[i].origin.path = x[j].origin.path
                                      => /\ IsSome(EndedAt(x[i]))
                                         /\ Unwrap(EndedAt(x[i])) <= x[j].started_at}}

ReportYears == {TimestampOrigin.year, TimestampOrigin.year + 1}
ReportMonths == {1, 12}
ReportFilters == {None, Some("RO"), Some("/B")}
CommitCaps == {1, 2}

(* The keys of the work-item HashMap, and the orders it hands them out in:  *)
(* one order and its reverse, so that any two keys come in either order.    *)
WorkItemKeys == <<"ABC-1", "main", "unknown">>
HashOrders ==
    {WorkItemKeys,
     [i \in 1..Len(WorkItemKeys) |-> WorkItemKeys[Len(WorkItemKeys) + 1 - i]]}

InitReport ==
    /\ db \in ReportStores
    /\ now = Unwrap(with_ymd_and_hms(TimestampOrigin.year + 1, 2))
    /\ last = [op |-> "init", path |-> "", result |-> "Ok", session |-> None,
               created |-> FALSE, merged |-> FALSE]
    /\ procs = Idle
    /\ runs = 0

(* main.rs cmd_report: the report for a month is generated, once. *)
Report ==
    \E year \in ReportYears, month \in ReportMonths, project_filter \in ReportFilters,
       max_commits_per_item \in CommitCaps, hash_order \in HashOrders :
        /\ runs = 0
        /\ runs' = runs + 1
        /\ last' = [op |-> "report", year |-> year, month |-> month,
                    project_filter |-> project_filter,
                    max_commits_per_item |-> max_commits_per_item,
                    result |-> generate_report(db, year, month, project_filter,
                                               max_commits_per_item, hash_order)]
        /\ UNCHANGED <<db, now, procs>>

NextReport == Report

SpecReport == InitReport /\ [][NextReport]_vars

----------------------------------------------------------------------------
(* A Stop run on a store that earlier invocations have left, with every     *)
(* outcome of the version-control provider: git::get_git_info fails, or     *)
(* returns with or without a head commit; git::get_commits_between fails,   *)
(* or returns no commit, or one.  The two read the repository one after    *)
(* the other, and it may change in between.                                 *)

GitWithoutHead ==
    [ok |-> TRUE, branch |-> "feature/ABC-1", head_commit |-> None,
     remote_url |-> Some("origin1")]
GitOutcomes == {GitRepo, GitWithoutHead, GitErr}

LogOfNone == [ok |-> TRUE, commits |-> <<>>]
LogOutcomes == {LogOfOne, LogOfNone, LogErr}

(* main.rs cmd_stop, once. *)
StopOnStore ==
    \E path \in Paths, git \in GitOutcomes, log \in LogOutcomes :
        \E config \in Configs(path) :
            LET r == stop_session(db, path, git, log, config, now)
            IN /\ runs = 0
               /\ runs' = runs + 1
               /\ db' = r.db
               /\ last' = [op |-> "stop", path |-> path, result |-> r.result,
                           session |-> r.session, created |-> r.created,
                           merged |-> FALSE, git |-> git, log |-> log]
               /\ UNCHANGED <<now, procs>>

NextStop == StopOnStore

SpecStop == InitReport /\ [][NextStop]_vars

----------------------------------------------------------------------------
(* The helpers of tracker.rs, and parse_month of report/mod.rs, called on    *)
(* their own, as the unit tests of tracker.rs call them: a process holds    *)
(* one call with its arguments, the step makes the call, and last records   *)
(* the call and what it returned.                                           *)

MaxGaps == 4
MaxLiveGaps == 2
MaxSeconds == 7260

(* config.rs default_idle_timeout: the timeout when no file sets one. *)
DefaultIdleTimeoutMinutes == 10

IdleTimeouts == {IdleTimeoutMinutes, DefaultIdleTimeoutMinutes}

(* The gaps between two consecutive heartbeats: none, half a second, the    *)
(* timeout exactly, half a second more, a second more, five and twenty      *)
(* minutes.                                                                 *)
GapChoices(idle_timeout_minutes) ==
    {0, 1, DurationMinutes(idle_timeout_minutes),
     DurationMinutes(idle_timeout_minutes) + 1,
     DurationMinutes(idle_timeout_minutes) + DurationSeconds(1),
     DurationMinutes(5), DurationMinutes(20)}

(* The heartbeats of one session, the first at time 0 and each next one     *)
(* the given gap later: what get_heartbeats returns, in timestamp order.    *)
HeartbeatsWithGaps(gaps) ==
    LET F[i \in 0..Len(gaps)] ==
            IF i = 0 THEN <<[session_id |-> 1, timestamp |-> 0]>>
            ELSE Append(F[i - 1],
                        [session_id |-> 1,
                         timestamp |-> F[i - 1][i].timestamp + gaps[i]])
    IN F[Len(gaps)]

AccumulatorCalls ==
    {[pc |-> "calculate_active_time", heartbeats |-> hs, idle_timeout_minutes |-> m] :
        m \in IdleTimeouts,
        hs \in {<<>>} \cup UNION {{HeartbeatsWithGaps(g) :
                                     g \in UNION {[1..k -> GapChoices(n)] : k \in 0..MaxGaps}} :
                                  n \in IdleTimeouts}}

ExtractCalls ==
    {[pc |-> "extract_work_item", branch |-> b, pattern |-> p] :
        b \in Branches, p \in {None} \cup {Some(x) : x \in Patterns}}

FormatCalls == {[pc |-> "format_duration", seconds |-> n] : n \in 0..MaxSeconds}

(* The status display: the heartbeats of an Active session, with up to      *)
(* MaxLiveGaps gaps, read when the last of them is some gap old.            *)
LiveCalls ==
    {[pc |-> "calculate_active_time_with_current", heartbeats |-> hs,
      idle_timeout_minutes |-> m, since |-> g] :
        m \in IdleTimeouts,
        hs \in {<<>>} \cup UNION {{HeartbeatsWithGaps(x) :
                                     x \in UNION {[1..k -> GapChoices(n)] :
                                                     k \in 0..MaxLiveGaps}} :
                                  n \in IdleTimeouts},
        g \in UNION {GapChoices(n) : n \in IdleTimeouts}}

(* The month strings of the command line: a year part, a separator and a    *)
(* month part.                                                              *)
YearParts ==
    {<<"2", "0", "2", "5">>, <<"2", "0", "2", "4">>, <<"2", "5">>,
     <<"2", "0", "2", "5", "0">>, <<"+", "2", "0", "2", "5", "0">>, <<"-", "1">>,
     <<"a", "b", "c", "d">>, <<>>}
Separators == {<<"-">>, <<"/">>, <<>>}
MonthParts ==
    {<<"0", "1">>, <<"1", "2">>, <<"1", "3">>, <<"0", "0">>, <<"9", "9">>, <<"1">>,
     <<"0">>, <<"0", "1", "1">>, <<"1", "x">>, <<"x">>, <<"0", "1", "-", "1", "5">>,
     <<"-", "1">>, <<>>}
MonthStrings == {y \o sep \o m : y \in YearParts, sep \in Separators, m \in MonthParts}

ParseCalls == {[pc |-> "parse_month", month_str |-> s] : s \in MonthStrings}

(* A status is written with as_str and the row read back with               *)
(* row_to_session; or a row is read whose status column holds a string      *)
(* that as_str never writes.                                                *)
ForeignStatusStrings == {"", "Active", "ACTIVE", "paused", "complete"}
StatusCalls ==
    {[pc |-> "as_str", status |-> v] : v \in Variants}
        \cup {[pc |-> "row_to_session", stored |-> s] : s \in ForeignStatusStrings}

(* The commits between two revisions of a repository whose HEAD is its      *)
(* latest commit or, where the call reads HEAD, has no commit: a revision   *)
(* is absent, a commit of the repository, or a name that resolves to none.  *)
Revisions(repo) == {None} \cup {Some(c) : c \in 1..(Len(repo) + 1)}
GitCall(repo, head, start_commit, end_commit) ==
    [pc |-> "get_commits_between", repo |-> repo, head |-> head,
     start_commit |-> start_commit, end_commit |-> end_commit]

InitHelpers ==
    /\ db = EmptyDb
    /\ now = 0
    /\ last = [op |-> "init", path |-> "", result |-> "Ok", session |-> None,
               created |-> FALSE, merged |-> FALSE]
    /\ \/ \E call \in AccumulatorCalls \cup ExtractCalls \cup FormatCalls \cup ParseCalls
                           \cup StatusCalls \cup LiveCalls :
             procs = [p \in Procs |-> IF p = 1 THEN call ELSE [pc |-> "idle"]]
       \/ \E repo \in Repositories :
             \E start_commit \in Revisions(repo), end_commit \in Revisions(repo) :
                \E head \in {Some(Len(repo))} \cup (IF IsSome(end_commit) THEN {} ELSE {None}) :
                   procs = [p \in Procs |->
                               IF p = 1 THEN GitCall(repo, head, start_commit, end_commit)
                               ELSE [pc |-> "idle"]]
    /\ runs = 0

(* The call held by process p returns. *)
Returned(p, result) ==
    /\ last' = [op |-> procs[p].pc, call |-> procs[p], result |-> result]
    /\ procs' = [procs EXCEPT ![p] = [pc |-> "idle"]]
    /\ UNCHANGED <<db, now, runs>>

CallCalculateActiveTime(p) ==
    /\ procs[p].pc = "calculate_active_time"
    /\ Returned(p, calculate_active_time(procs[p].heartbeats,
                                         procs[p].idle_timeout_minutes))

CallExtractWorkItem(p) ==
    /\ procs[p].pc = "extract_work_item"
    /\ Returned(p, extract_work_item(procs[p].branch, procs[p].pattern))

CallFormatDuration(p) ==
    /\ procs[p].pc = "format_duration"
    /\ Returned(p, format_duration(procs[p].seconds))

(* main.rs cmd_status, for one Active session: Utc::now() is the time of    *)
(* the last heartbeat, or of the start of the clock, and the gap since.     *)
CallCalculateActiveTimeWithCurrent(p) ==
    /\ procs[p].pc = "calculate_active_time_with_current"
    /\ LET hs == procs[p].heartbeats
           t == (IF hs = <<>> THEN 0 ELSE hs[Len(hs)].timestamp) + procs[p].since
       IN /\ last' = [op |-> procs[p].pc, call |-> procs[p], now |-> t,
                      result |-> calculate_active_time_with_current(
                                     hs, procs[p].idle_timeout_minutes, t)]
          /\ procs' = [procs EXCEPT ![p] = [pc |-> "idle"]]
          /\ UNCHANGED <<db, now, runs>>

CallParseMonth(p) ==
    /\ procs[p].pc = "parse_month"
    /\ Returned(p, parse_month(procs[p].month_str))

(* The status is written to the row: the process goes on to read it back. *)
CallAsStr(p) ==
    /\ procs[p].pc = "as_str"
    /\ last' = [op |-> "as_str", call |-> procs[p], result |-> as_str(procs[p].status)]
    /\ procs' = [procs EXCEPT ![p] = [pc |-> "row_to_session",
                                      stored |-> as_str(procs[p].status)]]
    /\ UNCHANGED <<db, now, runs>>

CallRowToSession(p) ==
    /\ procs[p].pc = "row_to_session"
    /\ Returned(p, row_to_session_status(procs[p].stored))

CallGetCommitsBetween(p) ==
    /\ procs[p].pc = "get_commits_between"
    /\ Returned(p, get_commits_between(procs[p].repo, procs[p].head,
                                       procs[p].start_commit, procs[p].end_commit))

NextHelpers ==
    \/ \E p \in Procs : CallCalculateActiveTime(p)
    \/ \E p \in Procs : CallExtractWorkItem(p)
    \/ \E p \in Procs : CallFormatDuration(p)
    \/ \E p \in Procs : CallCalculateActiveTimeWithCurrent(p)
    \/ \E p \in Procs : CallParseMonth(p)
    \/ \E p \in Procs : CallAsStr(p)
    \/ \E p \in Procs : CallRowToSession(p)
    \/ \E p \in Procs : CallGetCommitsBetween(p)

SpecHelpers == InitHelpers /\ [][NextHelpers]_vars

----------------------------------------------------------------------------
(* Vocabulary of the properties *)

SessionIds(d) == 1..Len(d.sessions)

(* The idle timeout T as a duration. *)
IdleTimeout == DurationMinutes(IdleTimeoutMinutes)

(* The Active sessions of the project at path (none when it is unknown). *)
ActiveOf(d, path) ==
    {i \in SessionIds(d) :
        /\ d.sessions[i].status = "active"
        /\ d.sessions[i].project_id \in 1..Len(d.projects)
        /\ d.projects[d.sessions[i].project_id].path = path}

IsTerminal(s) == s.status \in {"completed", "abandoned"}

(* The timestamps of a session's heartbeats. *)
BeatsOf(d, i) == {d.heartbeats[k].timestamp :
                    k \in {j \in 1..Len(d.heartbeats) : d.heartbeats[j].session_id = i}}

(* A session is stale at time t: it has a heartbeat and all of them are     *)
(* more than T before t.                                                    *)
IsStale(d, i, t) == BeatsOf(d, i) # {} /\ \A b \in BeatsOf(d, i) : b + IdleTimeout < t

(* C1: at every moment each project has at most one session with status     *)
(* Active, whatever Start, Heartbeat and Stop invocations ran and however   *)
(* the clock advanced.                                                      *)
C1_AtMostOneActivePerProject ==
    \A p \in 1..Len(db.projects) :
        Cardinality({i \in SessionIds(db) :
            db.sessions[i].project_id = p /\ db.sessions[i].status = "active"}) <= 1

(* A Start has just run for a project that had an Active session, and the   *)
(* project also has a closed session from before.                           *)
C1_Witness ==
    /\ last.op = "start" /\ ~last.created
    /\ Cardinality(ActiveOf(db, last.path)) = 1
    /\ \E i \in SessionIds(db) :
          /\ IsTerminal(db.sessions[i])
          /\ db.projects[db.sessions[i].project_id].path = last.path

(* C2 as claimed: also when Start invocations run concurrently, their      *)
(* store calls interleaving in any order, no project ever has two Active    *)
(* sessions.                                                                *)
C2_ConcurrentStartsKeepOneActive ==
    \A path \in Paths : Cardinality(ActiveOf(db, path)) <= 1

(* C3 as claimed: a Start for a project that still has the Active session   *)
(* of an earlier Start (no Stop since) creates no session, whatever the     *)
(* clock did: the same single session stays Active with its start time.     *)
C3_SecondStartIsNoOp ==
    [][\A path \in Paths :
        (last'.op = "start" /\ last'.path = path /\ ActiveOf(db, path) # {})
            => /\ Len(db'.sessions) = Len(db.sessions)
               /\ ActiveOf(db', path) = ActiveOf(db, path)
               /\ Cardinality(ActiveOf(db', path)) = 1
               /\ \A i \in ActiveOf(db, path) :
                     db'.sessions[i].started_at = db.sessions[i].started_at]_vars

(* C3 amended: the same, provided the Active session is not stale when the  *)
(* second Start runs (its last heartbeat is at most T old).                 *)
C3_SecondStartIsNoOpUnlessStale ==
    [][\A path \in Paths :
        (/\ last'.op = "start" /\ last'.path = path
         /\ ActiveOf(db, path) # {}
         /\ \A i \in ActiveOf(db, path) : ~IsStale(db, i, now))
            => /\ Len(db'.sessions) = Len(db.sessions)
               /\ ActiveOf(db', path) = ActiveOf(db, path)
               /\ Cardinality(ActiveOf(db', path)) = 1
               /\ \A i \in ActiveOf(db, path) :
                     db'.sessions[i].started_at = db.sessions[i].started_at]_vars

(* A second Start found the session of the first still Active after the     *)
(* clock had advanced by exactly T.                                         *)
C3_Witness ==
    /\ last.op = "start" /\ ~last.created /\ IsSome(last.session)
    /\ db.sessions[Unwrap(last.session)].status = "active"
    /\ now = db.sessions[Unwrap(last.session)].started_at + IdleTimeout
    /\ BeatsOf(db, Unwrap(last.session)) = {db.sessions[Unwrap(last.session)].started_at}

(* The project record a Start with this git information and configuration  *)
(* leaves: each field replaced by the supplied value when it is non-null.   *)
Merged(p, git, config) ==
    [p EXCEPT !.git_remote = IF git.ok /\ IsSome(git.remote_url)
                             THEN git.remote_url ELSE @,
              !.display_name = IF IsSome(config.project_name)
                               THEN config.project_name ELSE @,
              !.work_item_pattern = IF IsSome(config.work_item_pattern)
                                    THEN config.work_item_pattern ELSE @]

C5_HeartbeatWithoutSessionIsNoOp ==
    [][\A path \in Paths :
        (last'.op = "heartbeat" /\ last'.path = path /\ ActiveOf(db, path) = {})
            => db' = db /\ last'.result = "Ok"]_vars

(* A Heartbeat has just run for a project whose only session is already     *)
(* closed.                                                                  *)
C5_Witness ==
    /\ last.op = "heartbeat" /\ last.result = "Ok" /\ ~IsSome(last.session)
    /\ ActiveOf(db, last.path) = {}
    /\ \E i \in SessionIds(db) :
          /\ IsTerminal(db.sessions[i])
          /\ db.projects[db.sessions[i].project_id].path = last.path

(* C6 as claimed: a Stop for a path with no project record, or whose        *)
(* project has no Active session, returns Ok and leaves the store as it     *)
(* was, so that no ordering of invocations makes one return an error.       *)
C6_StopWithoutSessionIsOkNoOp ==
    [][\A path \in Paths :
        (last'.op = "stop" /\ last'.path = path /\ ActiveOf(db, path) = {})
            => db' = db /\ last'.result = "Ok"]_vars

(* C7: once a session is Completed or Abandoned, no later invocation        *)
(* changes its status, end_commit, active_seconds or end timestamp.         *)
C7_TerminalIsFinal ==
    [][\A i \in SessionIds(db) :
        IsTerminal(db.sessions[i])
            => /\ i \in SessionIds(db')
               /\ db'.sessions[i].status = db.sessions[i].status
               /\ db'.sessions[i].end_commit = db.sessions[i].end_commit
               /\ db'.sessions[i].active_seconds = db.sessions[i].active_seconds
               /\ db'.sessions[i].ended_at = db.sessions[i].ended_at]_vars

(* A Start, with its sweep, has just run more than T after a session was    *)
(* completed, and that session is still as the Stop left it.                *)
C7_Witness ==
    /\ last.op = "start" /\ last.created
    /\ \E i \in SessionIds(db) :
          /\ db.sessions[i].status = "completed"
          /\ IsStale(db, i, now)
          /\ Unwrap(db.sessions[i].ended_at) < now

(* C8: the sweep turns an Active session Abandoned only if the session has  *)
(* a heartbeat and its latest heartbeat is more than T before now; a        *)
(* session whose latest heartbeat is exactly T old is left Active, and so   *)
(* is, by the sweep's step on it, a session with no heartbeat at all.       *)
C8_SweepOnlyClosesStale ==
    [][/\ \A i \in SessionIds(db) :
            (db.sessions[i].status = "active" /\ db'.sessions[i].status = "abandoned")
                => /\ last'.op = "start"
                   /\ BeatsOf(db, i) # {}
                   /\ \A b \in BeatsOf(db, i) : b + IdleTimeout < now
       /\ \A i \in SessionIds(db), config \in Configs("/b") :
            db.sessions[i].status = "active"
                => sweep_one([db EXCEPT !.heartbeats = <<>>], i, config, now).sessions[i]
                        = db.sessions[i]]_vars

(* A Start has swept while another project's session had its latest         *)
(* heartbeat exactly T ago, and that session is still Active; the same      *)
(* sweep closed a session as Abandoned.                                     *)
C8_Witness ==
    /\ last.op = "start"
    /\ \E i \in SessionIds(db) :
          /\ db.sessions[i].status = "active"
          /\ BeatsOf(db, i) # {}
          /\ i # Unwrap(last.session)
          /\ \E b \in BeatsOf(db, i) : b + IdleTimeout = now
          /\ \A b \in BeatsOf(db, i) : b + IdleTimeout <= now
    /\ \E j \in SessionIds(db) :
          db.sessions[j].status = "abandoned" /\ db.sessions[j].ended_at = Some(now)

C10_StopCompletesTheActiveSession ==
    [][\A path \in Paths :
        (last'.op = "stop" /\ last'.path = path /\ ActiveOf(db, path) # {})
            => \E s \in ActiveOf(db, path) :
                  /\ ActiveOf(db, path) = {s}
                  /\ last'.session = Some(s)
                  /\ db'.sessions[s].status = "completed"
                  /\ db'.sessions[s].ended_at = Some(now)
                  /\ db'.sessions[s].active_seconds =
                        Some(calculate_active_time(get_heartbeats(db, s),
                                                   IdleTimeoutMinutes))
                  /\ Len(db'.sessions) = Len(db.sessions)
                  /\ \A j \in SessionIds(db) \ {s} :
                        db'.sessions[j] = db.sessions[j]]_vars

(* A Stop has just completed a session with three heartbeats, one gap of    *)
(* exactly T and one of T and half a second: both are counted, each for     *)
(* its whole seconds.                                                       *)
C10_Witness ==
    /\ last.op = "stop" /\ IsSome(last.session)
    /\ db.sessions[Unwrap(last.session)].status = "completed"
    /\ db.sessions[Unwrap(last.session)].ended_at = Some(now)
    /\ db.sessions[Unwrap(last.session)].active_seconds =
          Some(2 * IdleTimeoutMinutes * SecondsPerMinute)
    /\ BeatsOf(db, Unwrap(last.session)) = {0, IdleTimeout, 2 * IdleTimeout + 1}

(* C11: every session the sweep closes ends with status Abandoned, no       *)
(* end_commit, the time of the sweep as its end timestamp and as            *)
(* active_seconds the accumulator's result over its heartbeats; and every   *)
(* Abandoned session in the store has no end_commit.                        *)
C11_SweptSessionIsAbandonedWithoutEndCommit ==
    [][/\ \A i \in SessionIds(db) :
            (db.sessions[i].status = "active" /\ db'.sessions[i].status = "abandoned")
                => /\ db'.sessions[i].end_commit = None
                   /\ db'.sessions[i].ended_at = Some(now)
                   /\ db'.sessions[i].active_seconds =
                         Some(calculate_active_time(get_heartbeats(db, i),
                                                    IdleTimeoutMinutes))
       /\ \A i \in SessionIds(db') :
            db'.sessions[i].status = "abandoned" => db'.sessions[i].end_commit = None]_vars

(* The sweep of a Start has just closed a session of the repository at /a   *)
(* that had counted a full gap of T between its two heartbeats: it has no   *)
(* end_commit although it has a start_commit.                               *)
C11_Witness ==
    /\ last.op = "start"
    /\ \E i \in SessionIds(db) :
          /\ db.sessions[i].status = "abandoned"
          /\ db.sessions[i].ended_at = Some(now)
          /\ IsSome(db.sessions[i].start_commit)
          /\ db.sessions[i].end_commit = None
          /\ db.sessions[i].active_seconds = Some(IdleTimeoutMinutes * SecondsPerMinute)

----------------------------------------------------------------------------
(* Vocabulary of the properties of the helpers *)

RECURSIVE SumSeq(_)
SumSeq(s) == IF s = <<>> THEN 0 ELSE Head(s) + SumSeq(Tail(s))

(* The gaps between consecutive heartbeats, as durations. *)
GapsOf(hs) == [i \in 1..(Len(hs) - 1) |-> hs[i + 1].timestamp - hs[i].timestamp]

(* The span between the first and the last heartbeat, as a duration. *)
SpanOf(hs) == IF hs = <<>> THEN 0 ELSE hs[Len(hs)].timestamp - hs[1].timestamp

(* minute offsets {0, 5, 10, 30, 35} *)
ScenarioHeartbeats ==
    HeartbeatsWithGaps(<<DurationMinutes(5), DurationMinutes(5), DurationMinutes(20),
                         DurationMinutes(5)>>)

(* C12 as claimed: for every time-ordered heartbeat sequence and timeout T  *)
(* the accumulator returns exactly the sum of the consecutive gaps that     *)
(* are <= T, a gap > T adding nothing; it returns 0 for an empty or         *)
(* single-element sequence, and 900 seconds for the minute offsets          *)
(* {0, 5, 10, 30, 35} with T = 10 minutes.                                  *)
C12_SumOfGapsWithinTimeout ==
    /\ last.op = "calculate_active_time"
        => /\ DurationSeconds(last.result) =
                 SumSeq(SelectSeq(GapsOf(last.call.heartbeats),
                    LAMBDA g : g <= DurationMinutes(last.call.idle_timeout_minutes)))
           /\ Len(last.call.heartbeats) <= 1 => last.result = 0
    /\ calculate_active_time(ScenarioHeartbeats, 10) = 900

(* C13 as claimed: for every non-decreasing timestamp sequence and timeout  *)
(* T the accumulated seconds are at most the span between the first and     *)
(* the last timestamp, and equal the span if and only if every consecutive  *)
(* gap is <= T.                                                             *)
C13_AtMostSpanAndEqualIffNoIdleGap ==
    last.op = "calculate_active_time"
        => LET hs == last.call.heartbeats
               timeout == DurationMinutes(last.call.idle_timeout_minutes)
           IN /\ DurationSeconds(last.result) <= SpanOf(hs)
              /\ DurationSeconds(last.result) = SpanOf(hs)
                    <=> \A i \in 1..Len(GapsOf(hs)) : GapsOf(hs)[i] <= timeout

C15_ExtractWorkItemNeverFails ==
    last.op = "extract_work_item"
        => LET branch == last.call.branch
               pattern == last.call.pattern
           IN IF ~IsSome(pattern) THEN last.result = None
              ELSE IF ~RegexCompiles(Unwrap(pattern)) THEN last.result = None
              ELSE IF ~IsSome(RegexCaptures(Unwrap(pattern), branch))
                   THEN last.result = None
              ELSE LET caps == Unwrap(RegexCaptures(Unwrap(pattern), branch))
                   IN /\ IsSome(caps.g1) => last.result = caps.g1
                      /\ ~IsSome(caps.g1) => last.result = caps.g0
                      /\ IsSome(last.result)

(* The extraction has returned the first capture group of a pattern whose   *)
(* entire match is longer than that group.                                  *)
C15_Witness ==
    /\ last.op = "extract_work_item"
    /\ last.call.branch = "feature/ABC-1"
    /\ last.call.pattern = Some("feature/([A-Z]+-[0-9]+)")
    /\ last.result = Some("ABC-1")

(* C20: for every seconds value s >= 0, format_duration(s) writes           *)
(* hours = s div 3600 and minutes = (s mod 3600) div 60 as                  *)
(* "<hours>h <minutes>m" when hours > 0 and as "<minutes>m" otherwise, the  *)
(* leftover seconds being dropped, never rounded up; 0 gives "0m", 60       *)
(* gives "1m", 3600 gives "1h 0m" and 3660 gives "1h 1m".                   *)
C20_FormatDurationTruncates ==
    /\ last.op = "format_duration"
        => LET s == last.call.seconds
               hours == CHOOSE h \in 0..s : h * 3600 <= s /\ s < (h + 1) * 3600
               minutes == CHOOSE m \in 0..59 :
                              /\ hours * 3600 + m * 60 <= s
                              /\ s < hours * 3600 + (m + 1) * 60
           IN last.result = IF hours > 0
                            THEN ToString(hours) \o "h " \o ToString(minutes) \o "m"
                            ELSE ToString(minutes) \o "m"
    /\ format_duration(0) = "0m"
    /\ format_duration(60) = "1m"
    /\ format_duration(3600) = "1h 0m"
    /\ format_duration(3660) = "1h 1m"

(* format_duration has been called one second short of an hour and a        *)
(* minute, and has written the hour and no minute.                          *)
C20_Witness ==
    /\ last.op = "format_duration"
    /\ last.call.seconds = 3659
    /\ last.result = "1h 0m"

----------------------------------------------------------------------------
(* Vocabulary of the properties of the report *)

IsNonIncreasing(reports) ==
    \A i \in 1..(Len(reports) - 1) :
        reports[i].total_seconds >= reports[i + 1].total_seconds

(* The grouping key of a session: its work item, else its branch. *)
KeyOf(s) == IF IsSome(s.work_item) THEN Unwrap(s.work_item) ELSE s.branch

(* The first instant of the month after (year, month). *)
FirstOfNextMonth(year, month) ==
    IF month = 12 THEN Unwrap(with_ymd_and_hms(year + 1, 1))
    ELSE Unwrap(with_ymd_and_hms(year, month + 1))

(* The sessions that qualify for the report of a month with a filter. *)
Qualifying(d, year, month, project_filter) ==
    {i \in SessionIds(d) :
        /\ d.sessions[i].status # "active"
        /\ passes_filter(d.projects[d.sessions[i].project_id], project_filter)
        /\ d.sessions[i].started_at >= Unwrap(with_ymd_and_hms(year, month))
        /\ d.sessions[i].started_at < FirstOfNextMonth(year, month)}

(* The sum of the active seconds of a set of sessions. *)
RECURSIVE SecondsOf(_, _)
SecondsOf(d, S) ==
    IF S = {} THEN 0
    ELSE LET i == CHOOSE x \in S : TRUE
         IN (IF IsSome(d.sessions[i].active_seconds)
             THEN Unwrap(d.sessions[i].active_seconds) ELSE 0) + SecondsOf(d, S \ {i})

(* C16 as claimed: no work-item group of a generated report has             *)
(* total_seconds zero, a zero group being dropped even when other groups    *)
(* of its project are positive, and no project of the report is without     *)
(* groups.                                                                  *)
C16_NoZeroGroupInReport ==
    (last.op = "report" /\ last.result.ok)
        => \A i \in 1..Len(last.result.projects) :
              /\ last.result.projects[i].work_items # <<>>
              /\ \A k \in 1..Len(last.result.projects[i].work_items) :
                    last.result.projects[i].work_items[k].total_seconds # 0

(* C17: in every generated report the projects are in non-increasing order  *)
(* of total_seconds, and so are the work items of each project.             *)
C17_ReportIsSortedByTotal ==
    (last.op = "report" /\ last.result.ok)
        => /\ IsNonIncreasing(last.result.projects)
           /\ \A i \in 1..Len(last.result.projects) :
                 IsNonIncreasing(last.result.projects[i].work_items)

(* A report lists the project at /b, with the greater total, before the     *)
(* project at /a, which list_projects hands out first.                      *)
C17_Witness ==
    /\ last.op = "report" /\ last.result.ok
    /\ Len(last.result.projects) = 2
    /\ last.result.projects[1].path = "/b"
    /\ last.result.projects[2].path = "/a"
    /\ last.result.projects[1].total_seconds > last.result.projects[2].total_seconds

(* C18: the grand total of a report is the sum of the total_seconds of      *)
(* exactly the projects the report includes.                                *)
C18_GrandTotalIsSumOfIncludedProjects ==
    (last.op = "report" /\ last.result.ok)
        => last.result.total_seconds =
              SumSeq([i \in 1..Len(last.result.projects) |->
                         last.result.projects[i].total_seconds])

(* A report filtered to the project at /b includes that project only,       *)
(* while the project at /a, left out by the filter, has a session of the    *)
(* month with active seconds.                                               *)
C18_Witness ==
    /\ last.op = "report" /\ last.result.ok
    /\ last.project_filter = Some("/B")
    /\ Len(last.result.projects) = 1
    /\ last.result.total_seconds > 0
    /\ \E i \in Qualifying(db, last.year, last.month, None) :
          /\ db.projects[db.sessions[i].project_id].path = "/a"
          /\ db.sessions[i].active_seconds = Some(60)

(* C19: a session contributes to the report of month (y, m) if and only if  *)
(* it is not Active, its project passes the filter and its start lies in    *)
(* the half-open interval from the first instant of the month to the first  *)
(* instant of the next (January of y + 1 after December).  The store's      *)
(* range query hands out exactly those sessions for each project that       *)
(* passes the filter; each project of the report has as its total, and as   *)
(* its groups with their totals, those of its qualifying sessions and of    *)
(* no other; and a project that is not in the report has no seconds in      *)
(* qualifying sessions.                                                     *)
C19_SessionsOfTheMonthContribute ==
    (last.op = "report" /\ last.result.ok)
        => LET q == Qualifying(db, last.year, last.month, last.project_filter)
               of(path) == {i \in q : db.projects[db.sessions[i].project_id].path = path}
               listed == {last.result.projects[i].path :
                             i \in 1..Len(last.result.projects)}
           IN /\ \A p \in 1..Len(db.projects) :
                    passes_filter(db.projects[p], last.project_filter)
                        => {x \in SessionIds(db) :
                               \E k \in 1..Len(get_sessions_in_range(db,
                                           Unwrap(with_ymd_and_hms(last.year, last.month)),
                                           FirstOfNextMonth(last.year, last.month),
                                           Some(p))) :
                                  get_sessions_in_range(db,
                                      Unwrap(with_ymd_and_hms(last.year, last.month)),
                                      FirstOfNextMonth(last.year, last.month),
                                      Some(p))[k] = x}
                           = of(db.projects[p].path)
              /\ \A i \in 1..Len(last.result.projects) :
                    LET pr == last.result.projects[i]
                    IN /\ pr.total_seconds = SecondsOf(db, of(pr.path))
                       /\ {pr.work_items[k].id : k \in 1..Len(pr.work_items)}
                             = {KeyOf(db.sessions[x]) : x \in of(pr.path)}
                       /\ \A k \in 1..Len(pr.work_items) :
                             pr.work_items[k].total_seconds =
                                SecondsOf(db, {x \in of(pr.path) :
                                    KeyOf(db.sessions[x]) = pr.work_items[k].id})
              /\ \A p \in 1..Len(db.projects) :
                    db.projects[p].path \notin listed
                        => SecondsOf(db, of(db.projects[p].path)) = 0

(* The report of December 2024 counts the session started in the last half  *)
(* second of the month and not the closed session of another project that   *)
(* was started at the first instant of January 2025.                        *)
C19_Witness ==
    /\ last.op = "report" /\ last.result.ok
    /\ last.year = TimestampOrigin.year /\ last.month = 12
    /\ last.project_filter = None
    /\ last.result.total_seconds = 60
    /\ Len(db.sessions) = 2
    /\ db.sessions[1].started_at = FirstOfJanuary - 1
    /\ db.sessions[1].active_seconds = Some(60)
    /\ db.sessions[2].started_at = FirstOfJanuary
    /\ db.sessions[2].status = "abandoned"


----------------------------------------------------------------------------
(* Vocabulary of the properties of parse_month *)

(* A string of the form YYYY-MM: four digits, "-", two digits. *)
IsYearMonthForm(s) ==
    /\ Len(s) = 7
    /\ \A i \in {1, 2, 3, 4, 6, 7} : IsDigit(s[i])
    /\ s[5] = "-"

(* The number its decimal digits write. *)
NumberOf(s) ==
    LET V[i \in 0..Len(s)] == IF i = 0 THEN 0 ELSE V[i - 1] * 10 + DigitValue(s[i])
    IN V[Len(s)]

(* C21 as claimed: parse_month returns (year, month) for a string of the    *)
(* form YYYY-MM whose month is in 1..12, "2025-01" giving (2025, 1), and    *)
(* returns an input error, and no value, for a month outside 1..12 such as  *)
(* "2025-13" and for every string that is not of the form YYYY-MM.          *)
C21_ParseMonthAcceptsOnlyYearMonthForm ==
    /\ last.op = "parse_month"
        => LET s == last.call.month_str
           IN IF IsYearMonthForm(s) /\ NumberOf(SubSeq(s, 6, 7)) \in 1..12
              THEN last.result = [ok |-> TRUE, year |-> NumberOf(SubSeq(s, 1, 4)),
                                  month |-> NumberOf(SubSeq(s, 6, 7))]
              ELSE ~last.result.ok
    /\ parse_month(<<"2", "0", "2", "5", "-", "0", "1">>)
          = [ok |-> TRUE, year |-> 2025, month |-> 1]
    /\ ~parse_month(<<"2", "0", "2", "5", "-", "1", "3">>).ok

(* C22: a session status round-trips through its stored string: as_str      *)
(* writes exactly "active", "completed" and "abandoned" for Active,         *)
(* Completed and Abandoned, from_str of the written string is the status    *)
(* again, and a row read back has that status; a row whose stored string    *)
(* is any other is read as Active, not refused.                             *)
C22_StatusRoundTrips ==
    /\ last.op = "as_str"
        => /\ from_str(last.result) = Some(last.call.status)
           /\ last.result \in SessionStatus
           /\ (last.call.status = "Active") = (last.result = "active")
           /\ (last.call.status = "Completed") = (last.result = "completed")
           /\ (last.call.status = "Abandoned") = (last.result = "abandoned")
    /\ last.op = "row_to_session"
        => /\ last.result \in Variants
           /\ \A v \in Variants : last.call.stored = as_str(v) => last.result = v
           /\ last.call.stored \notin SessionStatus => last.result = "Active"

(* An Abandoned status has been written and the row read back as Abandoned. *)
C22_Witness ==
    /\ last.op = "row_to_session"
    /\ last.call.stored = "abandoned"
    /\ last.result = "Abandoned"

----------------------------------------------------------------------------
(* Properties of the store's tables over the invocations *)

(* The metadata a call of get_or_create_project may supply: each of the     *)
(* remote URL, the display name and the work-item pattern absent or a       *)
(* value other than the stored one.                                         *)
RemoteArgs == {None, Some("origin2")}
NameArgs == {None, Some("Renamed")}
PatternArgs == {None, Some("feature/.*")}

(* A project record with each field replaced by the supplied value when     *)
(* there is one.                                                            *)
Replaced(p, git_remote, display_name, work_item_pattern) ==
    [p EXCEPT !.git_remote = IF IsSome(git_remote) THEN git_remote ELSE @,
              !.display_name = IF IsSome(display_name) THEN display_name ELSE @,
              !.work_item_pattern = IF IsSome(work_item_pattern)
                                    THEN work_item_pattern ELSE @]

(* C23: no invocation deletes a project or changes the path of one, no two  *)
(* projects ever have the same path, and of Start, Heartbeat and Stop only  *)
(* a Start changes the projects table, by its call of                       *)
(* get_or_create_project.  That call, on the store a                        *)
(* Start runs on and with any metadata, adds no project when the path has   *)
(* one and then leaves every other project as it was and replaces each of   *)
(* remote URL, display name and work-item pattern of the path's project by  *)
(* the supplied value when that is non-null, keeping the stored value       *)
(* otherwise; when the path has none it adds exactly one project.           *)
C23_ProjectsAreMergedNeverDuplicatedOrDeleted ==
    [][/\ Len(db'.projects) >= Len(db.projects)
       /\ \A p \in 1..Len(db.projects) :
             /\ db'.projects[p].path = db.projects[p].path
             /\ db'.projects[p].created_at = db.projects[p].created_at
       /\ \A p, q \in 1..Len(db'.projects) :
             db'.projects[p].path = db'.projects[q].path => p = q
       /\ IF last'.op = "start"
          THEN /\ Len(db'.projects) =
                     Len(db.projects)
                        + (IF IsSome(get_project_by_path(db, last'.path)) THEN 0 ELSE 1)
               /\ \A p \in 1..Len(db.projects) :
                     db.projects[p].path # last'.path => db'.projects[p] = db.projects[p]
          ELSE db'.projects = db.projects
       /\ last'.op = "start" =>
          \A r \in RemoteArgs, n \in NameArgs, w \in PatternArgs :
             LET path == last'.path
                 found == get_project_by_path(db, path)
                 gp == get_or_create_project(db, path, r, n, w, now)
             IN /\ gp.db.sessions = db.sessions
                /\ gp.db.heartbeats = db.heartbeats
                /\ gp.db.commits = db.commits
                /\ IF IsSome(found)
                   THEN /\ gp.id = Unwrap(found)
                        /\ Len(gp.db.projects) = Len(db.projects)
                        /\ \A p \in 1..Len(db.projects) :
                              gp.db.projects[p] =
                                  IF p = gp.id THEN Replaced(db.projects[p], r, n, w)
                                  ELSE db.projects[p]
                   ELSE /\ gp.id = Len(db.projects) + 1
                        /\ gp.db.projects =
                              Append(db.projects,
                                     [path |-> path, git_remote |-> r, display_name |-> n,
                                      work_item_pattern |-> w, created_at |-> now])]_vars

(* A Start has created a session for the project at /b, which existed       *)
(* without a display name: the record now has the name and the pattern of   *)
(* the project configuration and still no remote URL, and the project at    *)
(* /a is in the store as well.                                              *)
C23_Witness ==
    /\ last.op = "start" /\ last.path = "/b" /\ last.merged /\ last.created
    /\ Len(db.projects) = 2
    /\ \E p \in 1..Len(db.projects) :
          /\ db.projects[p].path = "/b"
          /\ db.projects[p].display_name = Some("Proj")
          /\ db.projects[p].work_item_pattern = Some("([A-Z]+-[0-9]+)")
          /\ db.projects[p].git_remote = None

(* C24: a Stop for a project with an Active session completes that session  *)
(* and returns success whatever the version-control provider does: the      *)
(* session gets status Completed, the time of the Stop as its end           *)
(* timestamp and the accumulator's result as active_seconds; its            *)
(* end_commit is the head commit read, none when reading the git state      *)
(* failed; and its commit summaries are those of the log read, none when    *)
(* reading the log failed or the session has no start_commit.               *)
C24_StopCompletesWhateverGitDoes ==
    [][(last'.op = "stop" /\ ActiveOf(db, last'.path) # {})
            => \E s \in ActiveOf(db, last'.path) :
                  /\ last'.result = "Ok"
                  /\ last'.session = Some(s)
                  /\ db'.sessions[s].status = "completed"
                  /\ db'.sessions[s].ended_at = Some(now)
                  /\ db'.sessions[s].active_seconds =
                        Some(calculate_active_time(get_heartbeats(db, s),
                                                   IdleTimeoutMinutes))
                  /\ db'.sessions[s].end_commit =
                        (IF last'.git.ok THEN last'.git.head_commit ELSE None)
                  /\ [i \in 1..Len(get_commits(db', s)) |-> get_commits(db', s)[i].hash]
                        = [i \in 1..Len(get_commits(db, s)) |-> get_commits(db, s)[i].hash]
                            \o (IF last'.log.ok /\ IsSome(db.sessions[s].start_commit)
                                THEN [i \in 1..Len(last'.log.commits) |->
                                         last'.log.commits[i].hash]
                                ELSE <<>>)]_vars

(* A Stop has completed a session that has a start_commit while both the    *)
(* git state and the commit log could not be read: the session is           *)
(* Completed without end_commit and without commit summaries.               *)
C24_Witness ==
    /\ last.op = "stop" /\ last.result = "Ok" /\ IsSome(last.session)
    /\ ~last.git.ok /\ ~last.log.ok
    /\ IsSome(db.sessions[Unwrap(last.session)].start_commit)
    /\ db.sessions[Unwrap(last.session)].status = "completed"
    /\ db.sessions[Unwrap(last.session)].end_commit = None
    /\ get_commits(db, Unwrap(last.session)) = <<>>

(* C25: the sweep runs only inside Start.  A Heartbeat changes no session   *)
(* row, no project and no commit summary: it appends one heartbeat with     *)
(* the current time to the Active session of its project, or does           *)
(* nothing.  A Stop changes no session row but that of the Active session   *)
(* of its project, also when other sessions are stale.                      *)
C25_OnlyStartSweeps ==
    [][/\ last'.op = "heartbeat"
            => /\ db'.sessions = db.sessions
               /\ db'.projects = db.projects
               /\ db'.commits = db.commits
               /\ \/ db'.heartbeats = db.heartbeats
                  \/ \E s \in ActiveOf(db, last'.path) :
                        db'.heartbeats =
                            Append(db.heartbeats, [session_id |-> s, timestamp |-> now])
       /\ last'.op = "stop"
            => /\ Len(db'.sessions) = Len(db.sessions)
               /\ db'.heartbeats = db.heartbeats
               /\ \A i \in SessionIds(db) \ ActiveOf(db, last'.path) :
                     db'.sessions[i] = db.sessions[i]]_vars

(* A Heartbeat has been recorded for one project while the Active session   *)
(* of the other project was stale, and that session is still Active.        *)
C25_Witness ==
    /\ last.op = "heartbeat" /\ IsSome(last.session)
    /\ \E i \in SessionIds(db) :
          /\ Some(i) # last.session
          /\ db.sessions[i].status = "active"
          /\ IsStale(db, i, now)

(* The heartbeat rows of a session. *)
HeartbeatRows(d, i) == {k \in 1..Len(d.heartbeats) : d.heartbeats[k].session_id = i}

(* C26: right after the Start that created it a session has exactly one     *)
(* heartbeat, and between invocations every session in the store has at     *)
(* least one heartbeat.                                                     *)
C26_EverySessionHasAHeartbeat ==
    /\ \A i \in SessionIds(db) : HeartbeatRows(db, i) # {}
    /\ (last.op = "start" /\ last.created)
          => /\ IsSome(last.session)
             /\ Cardinality(HeartbeatRows(db, Unwrap(last.session))) = 1

(* A Start has created the second session of a project, long after the      *)
(* first session of that project had been given its second heartbeat.       *)
C26_Witness ==
    /\ last.op = "start" /\ last.created
    /\ Unwrap(last.session) = 2
    /\ db.sessions[1].project_id = db.sessions[2].project_id
    /\ Cardinality(HeartbeatRows(db, 1)) = 2
    /\ now > 0

(* s is t with rows appended. *)
IsExtensionOf(s, t) == Len(s) >= Len(t) /\ SubSeq(s, 1, Len(t)) = t

(* C27: heartbeats are append-only.  Every step of a Start with its sweep,  *)
(* a Heartbeat or a Stop leaves each heartbeat row in the store with its    *)
(* session and its timestamp and only adds rows after them, so that the     *)
(* rows of every session only grow by appending; and a row added carries    *)
(* the current time.                                                        *)
C27_HeartbeatsAreAppendOnly ==
    [][/\ IsExtensionOf(db'.heartbeats, db.heartbeats)
       /\ \A i \in SessionIds(db) :
             IsExtensionOf(SelectSeq(db'.heartbeats, LAMBDA h : h.session_id = i),
                           SelectSeq(db.heartbeats, LAMBDA h : h.session_id = i))
       /\ \A k \in (Len(db.heartbeats) + 1)..Len(db'.heartbeats) :
             /\ db'.heartbeats[k].timestamp = now
             /\ db'.heartbeats[k].session_id \in SessionIds(db')]_vars

(* A Heartbeat has added the second heartbeat of the first session after    *)
(* the first heartbeat of the second session: the rows of the two sessions  *)
(* alternate in the table.                                                  *)
C27_Witness ==
    /\ last.op = "heartbeat" /\ last.session = Some(1)
    /\ Len(db.heartbeats) = 3
    /\ db.heartbeats[1].session_id = 1
    /\ db.heartbeats[2].session_id = 2
    /\ db.heartbeats[3].session_id = 1
    /\ db.heartbeats[3].timestamp > db.heartbeats[1].timestamp

(* C28 as claimed: for every heartbeat sequence, timeout T and current time *)
(* not before the last heartbeat, the live-status accumulator returns what  *)
(* the persisted accumulator returns plus the seconds of the trailing gap   *)
(* from the last heartbeat to the current time when that gap is <= T, and   *)
(* exactly what the persisted accumulator returns when the trailing gap is  *)
(* > T or there is no heartbeat.                                            *)
C28_LiveIsPersistedPlusTrailingGap ==
    last.op = "calculate_active_time_with_current"
        => LET hs == last.call.heartbeats
               persisted == calculate_active_time(hs, last.call.idle_timeout_minutes)
               timeout == DurationMinutes(last.call.idle_timeout_minutes)
           IN IF hs = <<>> THEN last.result = persisted
              ELSE IF last.now - hs[Len(hs)].timestamp <= timeout
                   THEN last.result =
                            persisted + num_seconds(last.now - hs[Len(hs)].timestamp)
                   ELSE last.result = persisted

(* C29 as claimed: commit summaries are written at most once per session,   *)
(* by the Stop that terminates it and only when the session has a           *)
(* start_commit: in every state of every execution, two Stop invocations    *)
(* for one project interleaving included, a session without start_commit    *)
(* and an Abandoned session have no commit summaries, and no session has    *)
(* the same commit recorded twice.                                          *)
C29_CommitsAreRecordedOnce ==
    \A i \in SessionIds(db) :
        /\ (~IsSome(db.sessions[i].start_commit) \/ db.sessions[i].status = "abandoned")
              => get_commits(db, i) = <<>>
        /\ \A a, b \in 1..Len(get_commits(db, i)) :
              get_commits(db, i)[a].hash = get_commits(db, i)[b].hash => a = b

----------------------------------------------------------------------------
(* Vocabulary of the property of the commit cap *)

(* The rows of the commits table that belong to these sessions. *)
CommitRowsOf(d, ids) == {r \in 1..Len(d.commits) : d.commits[r].session_id \in ids}

(* Row a is met before row b: its session was started earlier (of two       *)
(* started together, the one stored first), and of two rows of one session  *)
(* the one with the earlier commit time (of two with the same, the one      *)
(* stored first).                                                           *)
MetBefore(d, a, b) ==
    LET sa == d.commits[a].session_id
        sb == d.commits[b].session_id
        ta == IF IsSome(d.commits[a].committed_at)
              THEN Unwrap(d.commits[a].committed_at) ELSE -1
        tb == IF IsSome(d.commits[b].committed_at)
              THEN Unwrap(d.commits[b].committed_at) ELSE -1
    IN \/ d.sessions[sa].started_at < d.sessions[sb].started_at
       \/ d.sessions[sa].started_at = d.sessions[sb].started_at /\ sa < sb
       \/ sa = sb /\ ta < tb
       \/ sa = sb /\ ta = tb /\ a < b

----------------------------------------------------------------------------
(* Vocabulary of the property of get_commits_between *)

(* The commits reachable from c, c among them. *)
ReachableFrom(repo, c) ==
    LET R[i \in 0..Len(repo)] ==
            IF i = 0 THEN {c}
            ELSE R[i - 1] \cup UNION {repo[x] : x \in R[i - 1]}
    IN R[Len(repo)]

(* C31 as claimed: given a start and an end commit of a repository,         *)
(* get_commits_between returns exactly the commits reachable from end that  *)
(* are not reachable from start nor start itself, each once, oldest first;  *)
(* among them the commits of a side branch merged into end.                 *)
C31_CommitsBetweenAreEndMinusStart ==
    (/\ last.op = "get_commits_between"
     /\ IsSome(last.call.start_commit) /\ IsSome(last.call.end_commit)
     /\ Unwrap(last.call.start_commit) \in DOMAIN last.call.repo
     /\ Unwrap(last.call.end_commit) \in DOMAIN last.call.repo)
        => LET repo == last.call.repo
               got == last.result.commits
               want == ReachableFrom(repo, Unwrap(last.call.end_commit))
                          \ ReachableFrom(repo, Unwrap(last.call.start_commit))
           IN /\ last.result.ok
              /\ {got[i].hash : i \in 1..Len(got)} = want
              /\ Len(got) = Cardinality(want)
              /\ \A i, j \in 1..Len(got) :
                    i < j => Unwrap(got[i].committed_at) < Unwrap(got[j].committed_at)

(* C32: with the invocations run one at a time, after every Start that      *)
(* returns success its project has exactly one Active session, the one the  *)
(* Start returns.  When the project's                                       *)
(* Active session was stale as the Start began, the Start has closed it as  *)
(* Abandoned and created a session with a new id, which is the Active one.  *)
C32_StartLeavesExactlyOneActive ==
    [][(last'.op = "start" /\ last'.result = "Ok")
            => /\ Cardinality(ActiveOf(db', last'.path)) = 1
               /\ IsSome(last'.session)
               /\ ActiveOf(db', last'.path) = {Unwrap(last'.session)}
               /\ \A s \in ActiveOf(db, last'.path) :
                     IsStale(db, s, now)
                        => /\ db'.sessions[s].status = "abandoned"
                           /\ last'.created
                           /\ Unwrap(last'.session) \notin SessionIds(db)
                           /\ Unwrap(last'.session) # s
                           /\ db'.sessions[Unwrap(last'.session)].started_at = now]_vars

(* A Start has found its project's only session stale: that session is      *)
(* Abandoned, and the session the Start created is the one Active session   *)
(* of the project.                                                          *)
C32_Witness ==
    /\ last.op = "start" /\ last.result = "Ok" /\ last.created
    /\ Len(db.sessions) = 2
    /\ db.sessions[1].project_id = db.sessions[2].project_id
    /\ db.sessions[1].status = "abandoned"
    /\ db.sessions[1].ended_at = Some(now)
    /\ last.session = Some(2)
    /\ ActiveOf(db, last.path) = {2}

(* C33 as claimed: under every interleaving of the store calls of a Stop    *)
(* with those of a concurrent Start and its sweep, a session that is        *)
(* Completed stays Completed, with its end_commit and its active_seconds.   *)
C33_CompletedIsFinalUnderInterleaving ==
    [][\A i \in SessionIds(db) :
          db.sessions[i].status = "completed"
             => /\ db'.sessions[i].status = "completed"
                /\ db'.sessions[i].end_commit = db.sessions[i].end_commit
                /\ db'.sessions[i].active_seconds = db.sessions[i].active_seconds]_vars

(* C34 as claimed: under every interleaving of the store calls of a         *)
(* Heartbeat with those of a concurrent Stop or sweep, no step adds a       *)
(* heartbeat to a session that is Completed or Abandoned, and every         *)
(* Completed or Abandoned session holds as active_seconds the               *)
(* accumulator's result over the heartbeats it has.                         *)
C34_NoHeartbeatAfterTermination ==
    [][/\ \A i \in SessionIds(db) :
             IsTerminal(db.sessions[i])
                => get_heartbeats(db', i) = get_heartbeats(db, i)
       /\ \A i \in SessionIds(db') :
             IsTerminal(db'.sessions[i])
                => db'.sessions[i].active_seconds =
                      Some(calculate_active_time(get_heartbeats(db', i),
                                                 IdleTimeoutMinutes))]_vars

(* C35 as claimed: under every interleaving of the store calls of a         *)
(* Heartbeat with those of the sweep of a concurrent Start, a step of the   *)
(* sweep that marks a session Abandoned finds the latest heartbeat of that  *)
(* session, as the store holds it at that moment, more than the idle        *)
(* timeout old.                                                             *)
C35_SweepNeverClosesFreshSession ==
    [][\A i \in SessionIds(db) :
          (db.sessions[i].status # "abandoned" /\ db'.sessions[i].status = "abandoned")
             => IsStale(db, i, now)]_vars

(* C36: a Start, for whatever project, that begins when the last heartbeat  *)
(* of an Active session is more than T old leaves that session Completed    *)
(* or Abandoned, so that after a Start no Active session is stale and       *)
(* there are no more Active sessions than projects; and with Start invoked  *)
(* again and again, every Active session whose last heartbeat is more than  *)
(* T old is eventually Completed or Abandoned, unless it receives another   *)
(* heartbeat.                                                               *)
C36_StaleSessionsAreEventuallyClosed ==
    /\ [][last'.op = "start"
             => /\ \A i \in SessionIds(db) :
                      (db.sessions[i].status = "active" /\ IsStale(db, i, now))
                         => IsTerminal(db'.sessions[i])
                /\ \A i \in SessionIds(db') :
                      db'.sessions[i].status = "active" => ~IsStale(db', i, now)
                /\ Cardinality({i \in SessionIds(db') : db'.sessions[i].status = "active"})
                      <= Len(db'.projects)]_vars
    /\ \A i \in 1..MaxSessions : \A n \in 1..MaxHeartbeats :
          (/\ i \in SessionIds(db)
           /\ db.sessions[i].status = "active"
           /\ IsStale(db, i, now)
           /\ Cardinality(HeartbeatRows(db, i)) = n)
             ~> (/\ i \in SessionIds(db)
                 /\ \/ IsTerminal(db.sessions[i])
                    \/ Cardinality(HeartbeatRows(db, i)) > n)

(* A Start for one project has closed the stale session of another: the     *)
(* session of /a, left without heartbeats for more than T, is Abandoned     *)
(* after a Start for /b.                                                    *)
C36_Witness ==
    /\ last.op = "start" /\ last.path = "/b" /\ last.created
    /\ Len(db.sessions) = 2
    /\ db.projects[db.sessions[1].project_id].path = "/a"
    /\ db.sessions[1].status = "abandoned"
    /\ db.sessions[1].ended_at = Some(now)
    /\ now > db.sessions[1].started_at + IdleTimeout
    /\ db.sessions[2].status = "active"

(* C37: with the invocations run one at a time, at every moment an Active   *)
(* session has no end timestamp and no active_seconds, and a Completed or   *)
(* Abandoned session has both.                                              *)
C37_EndFieldsAgreeWithStatus ==
    \A i \in SessionIds(db) :
        /\ db.sessions[i].status = "active"
              => /\ db.sessions[i].ended_at = None
                 /\ db.sessions[i].active_seconds = None
        /\ IsTerminal(db.sessions[i])
              => /\ IsSome(db.sessions[i].ended_at)
                 /\ IsSome(db.sessions[i].active_seconds)

(* The store holds a Completed, an Abandoned and an Active session, the     *)
(* first two with both end fields and the third with neither.               *)
C37_Witness ==
    /\ \E i \in SessionIds(db) :
          /\ db.sessions[i].status = "completed"
          /\ IsSome(db.sessions[i].ended_at) /\ IsSome(db.sessions[i].active_seconds)
    /\ \E i \in SessionIds(db) :
          /\ db.sessions[i].status = "abandoned"
          /\ IsSome(db.sessions[i].ended_at) /\ IsSome(db.sessions[i].active_seconds)
    /\ \E i \in SessionIds(db) :
          /\ db.sessions[i].status = "active"
          /\ db.sessions[i].ended_at = None /\ db.sessions[i].active_seconds = None

(* C38: with the invocations run one at a time and a clock that never goes  *)
(* back, every Completed or Abandoned session has 0 <= active_seconds <=    *)
(* end timestamp - start timestamp.                                         *)
C38_ActiveTimeWithinWallClock ==
    \A i \in SessionIds(db) :
        IsTerminal(db.sessions[i])
            => /\ IsSome(db.sessions[i].active_seconds) /\ IsSome(db.sessions[i].ended_at)
               /\ Unwrap(db.sessions[i].active_seconds) >= 0
               /\ DurationSeconds(Unwrap(db.sessions[i].active_seconds))
                     <= Unwrap(db.sessions[i].ended_at) - db.sessions[i].started_at

(* A session was completed one minute after it began, with a heartbeat      *)
(* then: its active time is exactly its duration; and another was swept     *)
(* half a second after its only heartbeat had become older than T: its      *)
(* active time is 0, its duration more than a minute.                       *)
C38_Witness ==
    /\ \E i \in SessionIds(db) :
          /\ db.sessions[i].status = "completed"
          /\ db.sessions[i].active_seconds = Some(SecondsPerMinute)
          /\ Unwrap(db.sessions[i].ended_at) - db.sessions[i].started_at
                = DurationMinutes(1)
    /\ \E i \in SessionIds(db) :
          /\ db.sessions[i].status = "abandoned"
          /\ db.sessions[i].active_seconds = Some(0)
          /\ Unwrap(db.sessions[i].ended_at) - db.sessions[i].started_at
                = DurationMinutes(1) + 1

(* C39: a report conserves time.  The total of every project in it is the   *)
(* sum of the active_seconds of the project's qualifying sessions, a        *)
(* missing value counting 0; every such session belongs to exactly one      *)
(* group of the project, the one whose id is the session's work item or,    *)
(* without one, its branch; and the totals of the groups, each the sum of   *)
(* its own sessions, add up to the project's total.                         *)
C39_ReportConservesTime ==
    (last.op = "report" /\ last.result.ok)
        => LET q == Qualifying(db, last.year, last.month, last.project_filter)
           IN \A i \in 1..Len(last.result.projects) :
                 LET pr == last.result.projects[i]
                     mine == {x \in q : db.projects[db.sessions[x].project_id].path = pr.path}
                     members(k) == {x \in mine :
                                      (IF IsSome(db.sessions[x].work_item)
                                       THEN Unwrap(db.sessions[x].work_item)
                                       ELSE db.sessions[x].branch) = pr.work_items[k].id}
                     G[k \in 0..Len(pr.work_items)] ==
                         IF k = 0 THEN 0 ELSE G[k - 1] + pr.work_items[k].total_seconds
                 IN /\ pr.total_seconds = SecondsOf(db, mine)
                    /\ G[Len(pr.work_items)] = pr.total_seconds
                    /\ \A x \in mine :
                          Cardinality({k \in 1..Len(pr.work_items) : x \in members(k)}) = 1
                    /\ \A k \in 1..Len(pr.work_items) :
                          /\ members(k) # {}
                          /\ pr.work_items[k].total_seconds = SecondsOf(db, members(k))

(* A report of a project with two sessions in the month, one on a branch    *)
(* with a work item and one on main, one of 60 seconds and one of none:     *)
(* two groups, of 60 and of 0 seconds, and a project total of 60.           *)
C39_Witness ==
    /\ last.op = "report" /\ last.result.ok
    /\ Len(db.sessions) = 2
    /\ Len(last.result.projects) = 1
    /\ last.result.projects[1].total_seconds = 60
    /\ Len(last.result.projects[1].work_items) = 2
    /\ {last.result.projects[1].work_items[k].id : k \in 1..2} = {"ABC-1", "main"}
    /\ {last.result.projects[1].work_items[k].total_seconds : k \in 1..2} = {0, 60}
====
